---------------------------- MODULE Spec2Model ----------------------------
(***************************************************************************)
(* A model of the code-generation core of sargenjs:                        *)
(*   - the Content Patcher      fileHelper._appendContent                  *)
(*   - the Structure Resolver   fileHelper._addDirsAndFiles                *)
(*   - the gen:module / gen:util commands of class Generate                *)
(* Text is a sequence of tokens (one-character strings where the code      *)
(* works on characters, whole words where only the word matters).  The     *)
(* project tree is a function from the paths that exist to their nodes.    *)
(***************************************************************************)
EXTENDS Integers, Sequences, FiniteSets, TLC

VARIABLES
  fs,       \* the tree on disk: path -> [kind, content]
  fsPre,    \* the tree as it was when the last operation was called
  fs0,      \* the tree the run started from
  hist,     \* the operations called so far, each with its inputs and outcome
  plan,     \* the structure plan under test (Structure Resolver runs)
  project   \* the metadata of .sargen.json read by the Generate constructor

vars == <<fs, fsPre, fs0, hist, plan, project>>

(***************************************************************************)
(* Bounds of the model.                                                    *)
(***************************************************************************)
MaxPatches == 2
MaxFileLen == 2
MaxPlanLen == 2
MaxRuns == 2

(***************************************************************************)
(* JavaScript string primitives, on token sequences.  Indices are 0-based  *)
(* as in the code.                                                         *)
(***************************************************************************)
Max(S) == CHOOSE x \in S : \A y \in S : y <= x
Min(S) == CHOOSE x \in S : \A y \in S : x <= y

NL == "\n"
Whitespace == {" ", "\n", "\t"}

\* text.startsWith(pat, i)
Matches(text, pat, i) ==
  /\ i + Len(pat) <= Len(text)
  /\ \A k \in 1..Len(pat) : text[i + k] = pat[k]

\* text.lastIndexOf(pat): the greatest offset of an occurrence, -1 if none
lastIndexOf(text, pat) ==
  LET hits == {i \in 0..Len(text) : Matches(text, pat, i)}
  IN  IF hits = {} THEN -1 ELSE Max(hits)

\* text.slice(from, to)
slice(text, from, to) == SubSeq(text, from + 1, to)

\* text.split(sep), sep one character
RECURSIVE split(_, _)
split(text, sep) ==
  LET at == {i \in 1..Len(text) : text[i] = sep}
  IN  IF at = {} THEN <<text>>
      ELSE <<SubSeq(text, 1, Min(at) - 1)>>
             \o split(SubSeq(text, Min(at) + 1, Len(text)), sep)

\* line.trim()
trim(line) ==
  LET n == Len(line)
  IN  IF n = 0 THEN <<>>
      ELSE IF line[1] \notin Whitespace /\ line[n] \notin Whitespace THEN line
      ELSE IF \A i \in 1..n : line[i] \in Whitespace THEN <<>>
      ELSE
        LET first == CHOOSE i \in 1..n :
                       /\ line[i] \notin Whitespace
                       /\ \A j \in 1..(i - 1) : line[j] \in Whitespace
            last == CHOOSE i \in 1..n :
                      /\ line[i] \notin Whitespace
                      /\ \A j \in (i + 1)..n : line[j] \in Whitespace
        IN  SubSeq(line, first, last)

startsWith(line, pat) == Matches(line, pat, 0)

\* lines.join(sep)
RECURSIVE join(_, _)
join(lines, sep) ==
  IF lines = <<>> THEN <<>>
  ELSE IF Len(lines) = 1 THEN lines[1]
  ELSE lines[1] \o <<sep>> \o join(Tail(lines), sep)

\* _lodash.isEmpty on a string
isEmpty(text) == Len(text) = 0

\* every offset at which pat occurs in text
Occurrences(text, pat) == {i \in 0..Len(text) : Matches(text, pat, i)}

(***************************************************************************)
(* The file system.                                                        *)
(***************************************************************************)
Root == <<>>
DirNode == [kind |-> "dir", content |-> <<>>]
FileNode(c) == [kind |-> "file", content |-> c]
EmptyTree == Root :> DirNode

Parent(p) == SubSeq(p, 1, Len(p) - 1)

existsSync(f, p) == p \in DOMAIN f
IsDir(f, p) == p \in DOMAIN f /\ f[p].kind = "dir"
IsFile(f, p) == p \in DOMAIN f /\ f[p].kind = "file"

\* fs.writeFileSync: fails (ENOENT, ENOTDIR, EISDIR) unless the parent is a
\* directory and the target is not one
CanWrite(f, p) == p # Root /\ IsDir(f, Parent(p)) /\ ~IsDir(f, p)
Put(f, p, node) == (p :> node) @@ f
writeFileSync(f, p, c) ==
  IF CanWrite(f, p) THEN [ok |-> TRUE, fs |-> Put(f, p, FileNode(c))]
  ELSE [ok |-> FALSE, fs |-> f]

(***************************************************************************)
(* The Content Patcher: fileHelper._appendContent.                         *)
(* An outcome is "ok" (returned after writing), "returned" (logged an      *)
(* error and returned normally, nothing raised) or "throw".                *)
(***************************************************************************)
\* appendAt "before", cutting at the first occurrence instead of the last
beforeAnchor_firstOccurrence(fileContent, options) ==
  LET hits == Occurrences(fileContent, options.appendLine)
      appendIndex == IF hits = {} THEN -1 ELSE Min(hits)
  IN  IF appendIndex = -1
      THEN [found |-> FALSE, updatedContent |-> fileContent]
      ELSE [found |-> TRUE,
            updatedContent |->
              slice(fileContent, 0, appendIndex) \o <<NL>> \o options.content
                \o <<NL>> \o slice(fileContent, appendIndex, Len(fileContent))]

\* appendAt "before", without the line break in front of the content
beforeAnchor_noLeadingBreak(fileContent, options) ==
  LET appendIndex == lastIndexOf(fileContent, options.appendLine)
  IN  IF appendIndex = -1
      THEN [found |-> FALSE, updatedContent |-> fileContent]
      ELSE [found |-> TRUE,
            updatedContent |->
              slice(fileContent, 0, appendIndex) \o options.content
                \o <<NL>> \o slice(fileContent, appendIndex, Len(fileContent))]

\* appendAt "before": cut at the last occurrence of appendLine
beforeAnchor(fileContent, options) ==
  LET appendIndex == lastIndexOf(fileContent, options.appendLine)
      beforeContent == slice(fileContent, 0, appendIndex)
      afterContent == slice(fileContent, appendIndex, Len(fileContent))
  IN  IF appendIndex = -1
      THEN [found |-> FALSE, updatedContent |-> fileContent]
      ELSE [found |-> TRUE,
            updatedContent |->
              beforeContent \o <<NL>> \o options.content \o <<NL>> \o afterContent]

\* the reduce over the lines: each line is kept, and followed by the
\* content when its trimmed text starts with appendLine
RECURSIVE modifiedLines(_, _)
modifiedLines(lines, options) ==
  IF lines = <<>> THEN <<>>
  ELSE (IF startsWith(trim(Head(lines)), options.appendLine)
        THEN <<Head(lines), options.content>>
        ELSE <<Head(lines)>>)
       \o modifiedLines(Tail(lines), options)

\* appendAt "after", putting the content at the end when no line matches
afterAnchor_appendsAtEnd(fileContent, options) ==
  LET lines == split(fileContent, NL)
      found == \E i \in 1..Len(lines) :
                 startsWith(trim(lines[i]), options.appendLine)
  IN  [found |-> TRUE,
       updatedContent |-> IF found THEN join(modifiedLines(lines, options), NL)
                          ELSE fileContent \o options.content]

\* appendAt "after"
afterAnchor(fileContent, options) ==
  LET lines == split(fileContent, NL)
      found == \E i \in 1..Len(lines) :
                 startsWith(trim(lines[i]), options.appendLine)
  IN  IF ~found
      THEN [found |-> FALSE, updatedContent |-> fileContent]
      ELSE [found |-> TRUE,
            updatedContent |-> join(modifiedLines(lines, options), NL)]

_appendContent(f, filePath, options) ==
  IF existsSync(f, filePath) /\ ~isEmpty(options.content)
  THEN IF ~IsFile(f, filePath)
       THEN [fs |-> f, outcome |-> "throw"]      \* readFileSync: EISDIR
       ELSE
         LET fileContent == f[filePath].content
             r == IF options.appendAt = "before"
                  THEN beforeAnchor(fileContent, options)
                  ELSE IF options.appendAt = "after"
                  THEN afterAnchor(fileContent, options)
                  ELSE [found |-> TRUE,
                        updatedContent |-> fileContent \o options.content]
         IN  IF ~r.found
             THEN [fs |-> f, outcome |-> "returned"]
             ELSE [fs |-> writeFileSync(f, filePath, r.updatedContent).fs,
                   outcome |-> "ok"]
  ELSE [fs |-> f, outcome |-> "throw"]

(***************************************************************************)
(* Specification SpecPatch: patches of one file.                           *)
(***************************************************************************)
IndexFile == <<"index.js">>
FileChars == {"m", " ", NL}
PatchTexts == UNION {[1..n -> FileChars] : n \in 0..MaxFileLen}
AnchorTexts == {<<"m">>, <<NL, "m">>}
InsertTexts == {<<>>, <<"x">>, <<"m">>}
AppendModes == {"before", "after", "last"}

PatchTrees ==
  {EmptyTree, Put(EmptyTree, IndexFile, DirNode)}
    \cup {Put(EmptyTree, IndexFile, FileNode(c)) : c \in PatchTexts}

NoProject == [structure |-> "", orm |-> ""]

InitPatch ==
  /\ fs0 \in PatchTrees
  /\ fs = fs0
  /\ fsPre = fs0
  /\ hist = <<>>
  /\ plan = <<>>
  /\ project = NoProject

AppendContent(appendAt, appendLine, content) ==
  LET options == [content |-> content, appendAt |-> appendAt,
                  appendLine |-> appendLine]
      r == _appendContent(fs, IndexFile, options)
  IN  /\ Len(hist) < MaxPatches
      /\ fs' = r.fs
      /\ fsPre' = fs
      /\ hist' = Append(hist, [op |-> "appendContent", appendAt |-> appendAt,
                               appendLine |-> appendLine, content |-> content,
                               outcome |-> r.outcome])
      /\ UNCHANGED <<fs0, plan, project>>

NextPatch ==
  \E appendAt \in AppendModes, appendLine \in AnchorTexts, content \in InsertTexts :
    AppendContent(appendAt, appendLine, content)

SpecPatch == InitPatch /\ [][NextPatch]_vars

\* the last operation called, and the file before and after it
Last == hist[Len(hist)]
PreText == fsPre[IndexFile].content
PostText == fs[IndexFile].content

(***************************************************************************)
(* Claims about the Content Patcher (SpecPatch).                           *)
(***************************************************************************)
PatchCalled == hist # <<>> /\ Last.op = "appendContent"

\* the anchor of a call is in the text: as a substring for "before", as a
\* prefix of a trimmed line for "after"
AnchorFound(text, call) ==
  IF call.appendAt = "before"
  THEN Occurrences(text, call.appendLine) # {}
  ELSE \E i \in 1..Len(split(text, NL)) :
         startsWith(trim(split(text, NL)[i]), call.appendLine)

\* C5: a patch with position before-anchor or after-anchor raises an error
\* to its caller whenever the anchor text is not found in the target file.
C5_MissingAnchorRaises ==
  (/\ PatchCalled
   /\ Last.appendAt \in {"before", "after"}
   /\ IsFile(fsPre, IndexFile)
   /\ ~AnchorFound(PreText, Last))
    => Last.outcome = "throw"

\* C6: an after-anchor patch inserts the insertion exactly once, as a new
\* line right after the first line whose trimmed text starts with the
\* anchor; every other line, later matching lines included, stays as it was
\* and gets no insertion.
C6_AfterAnchorInsertsOnce ==
  (PatchCalled /\ Last.appendAt = "after" /\ Last.outcome = "ok")
    => LET lines == split(PreText, NL)
           k == Min({i \in 1..Len(lines) :
                       startsWith(trim(lines[i]), Last.appendLine)})
       IN  PostText = join(SubSeq(lines, 1, k) \o <<Last.content>>
                             \o SubSeq(lines, k + 1, Len(lines)), NL)

\* the text before the last occurrence of the anchor, and from it onward
LastOccurrence(text, anchor) ==
  CHOOSE i \in Occurrences(text, anchor) :
    \A j \in Occurrences(text, anchor) : j <= i
BeforePart(text, anchor) == SubSeq(text, 1, LastOccurrence(text, anchor))
AnchorOnward(text, anchor) ==
  SubSeq(text, LastOccurrence(text, anchor) + 1, Len(text))

BeforeAnchorCase ==
  /\ PatchCalled
  /\ Last.appendAt = "before"
  /\ IsFile(fsPre, IndexFile)
  /\ Occurrences(PreText, Last.appendLine) # {}

\* C7 as stated: a before-anchor patch of a file that contains the anchor
\* writes exactly P + newline + insertion + newline + S, P the content before
\* the last occurrence of the anchor and S the content from it onward.
C7_BeforeAnchorWrites ==
  BeforeAnchorCase
    => PostText = BeforePart(PreText, Last.appendLine) \o <<NL>> \o Last.content
                    \o <<NL>> \o AnchorOnward(PreText, Last.appendLine)

\* C7 amended: a before-anchor patch with a non-empty insertion, of a file
\* that contains the anchor, succeeds and writes exactly
\* P + newline + insertion + newline + S; with an empty insertion it raises
\* an error and leaves the file as it was.
C7_BeforeAnchorWritesNonEmpty ==
  BeforeAnchorCase
    => IF Last.content # <<>>
       THEN /\ Last.outcome = "ok"
            /\ PostText = BeforePart(PreText, Last.appendLine) \o <<NL>>
                            \o Last.content \o <<NL>>
                            \o AnchorOnward(PreText, Last.appendLine)
       ELSE Last.outcome = "throw" /\ PostText = PreText

\* C7 witness: a before-anchor patch was applied to a file holding the
\* anchor more than once, with text before the last occurrence
C7_Witness ==
  /\ BeforeAnchorCase
  /\ Last.outcome = "ok"
  /\ Cardinality(Occurrences(PreText, Last.appendLine)) > 1
  /\ BeforePart(PreText, Last.appendLine) # <<>>

\* the patches that returned normally, in the order they were called
Applied == SelectSeq(hist, LAMBDA c : c.outcome = "ok")

\* what a run of before-anchor patches inserts, in order
RECURSIVE Blocks(_)
Blocks(calls) ==
  IF calls = <<>> THEN <<>>
  ELSE <<NL>> \o Head(calls).content \o <<NL>> \o Blocks(Tail(calls))

\* the run so far is a run of before-anchor patches with one anchor, on a
\* file that held the anchor exactly once, no insertion containing the anchor
AnchorRun(anchor) ==
  /\ IsFile(fs0, IndexFile)
  /\ Cardinality(Occurrences(fs0[IndexFile].content, anchor)) = 1
  /\ \A i \in 1..Len(hist) :
       /\ hist[i].op = "appendContent"
       /\ hist[i].appendAt = "before"
       /\ hist[i].appendLine = anchor
       /\ Occurrences(hist[i].content, anchor) = {}

AnchorRunText(anchor) ==
  BeforePart(fs0[IndexFile].content, anchor) \o Blocks(Applied)
    \o AnchorOnward(fs0[IndexFile].content, anchor)

\* C8 as stated: after n successive before-anchor patches the file holds the
\* n insertions in the order applied, all before the anchor, and the anchor
\* occurrence is still the last and the only one, the text from it onward
\* unchanged.
C8_RepeatedBeforeAnchor ==
  \A anchor \in AnchorTexts :
    AnchorRun(anchor)
      => /\ PostText = AnchorRunText(anchor)
         /\ AnchorOnward(PostText, anchor)
              = AnchorOnward(fs0[IndexFile].content, anchor)
         /\ Cardinality(Occurrences(PostText, anchor)) = 1

\* C8 amended: every patch of the run with a non-empty insertion succeeds,
\* the file holds their insertions in the order applied, all before the last
\* occurrence of the anchor, and the text from that occurrence onward is
\* unchanged; it is the only occurrence when the anchor has no line break.
C8_RepeatedBeforeAnchorLast ==
  \A anchor \in AnchorTexts :
    AnchorRun(anchor)
      => /\ \A i \in 1..Len(hist) :
              hist[i].outcome = IF hist[i].content # <<>> THEN "ok" ELSE "throw"
         /\ PostText = AnchorRunText(anchor)
         /\ AnchorOnward(PostText, anchor)
              = AnchorOnward(fs0[IndexFile].content, anchor)
         /\ (\A k \in 1..Len(anchor) : anchor[k] # NL)
              => Cardinality(Occurrences(PostText, anchor)) = 1

\* C8 witness: two patches with different insertions were applied in a run
C8_Witness ==
  \E anchor \in AnchorTexts :
    /\ AnchorRun(anchor)
    /\ Len(Applied) >= 2
    /\ Applied[1].content # Applied[2].content

\* C29: when a patch with position before-anchor or after-anchor does not
\* find its anchor in the target file, the file is left exactly as it was:
\* nothing is written and its content is the content before the call.
C29_MissingAnchorLeavesFile ==
  (/\ PatchCalled
   /\ Last.appendAt \in {"before", "after"}
   /\ IsFile(fsPre, IndexFile)
   /\ ~AnchorFound(PreText, Last))
    => /\ fs = fsPre
       /\ PostText = PreText

\* C29 witness: a patch with content for a file without the anchor, in each
\* position
C29_Witness ==
  /\ Len(hist) = 2
  /\ \A i \in 1..2 : hist[i].content # <<>> /\ hist[i].outcome = "returned"
  /\ hist[1].appendAt = "before" /\ hist[2].appendAt = "after"
  /\ IsFile(fsPre, IndexFile) /\ PreText # <<>>
  /\ ~AnchorFound(PreText, Last)
  /\ fs = fsPre

(***************************************************************************)
(* The Template Renderer: templateHelper._renderTemplate over              *)
(* _lodash.template.  A template source is a token sequence; a token is    *)
(* literal text, an interpolation <%= v %>, the opening of a conditional   *)
(* block <% if (...) { %> or its closing <% } %>.  The data is a function  *)
(* from variable names to values.  Evaluating a variable that the data     *)
(* does not define raises a ReferenceError.                                *)
(***************************************************************************)
EndBlock == "<% } %>"
ElseBlock == "<% } else { %>"
ForEachStart == "<% modelAttributes.forEach((attr, index) => { %>"
ForEachEnd == "<% }); %>"
SeparatorExpr == "index < modelAttributes.length - 1 ? ',' : ''"

\* the interpolations of the templates, each with the expression it evaluates
Interpolations ==
  ("<%= moduleNameCapitalized %>" :> "moduleNameCapitalized")
    @@ ("<%= moduleName %>" :> "moduleName")
    @@ ("<%= modelImport %>" :> "modelImport")
    @@ ("<%= serviceImport %>" :> "serviceImport")
    @@ ("<%= controllerImport %>" :> "controllerImport")
    @@ ("<%= paginationServicePath %>" :> "paginationServicePath")
    @@ ("<%= crudServices %>" :> "crudServices")
    @@ ("<%= crudMethods %>" :> "crudMethods")
    @@ ("<%= crudRoutes %>" :> "crudRoutes")
    @@ ("<%= attr.name %>" :> "attr.name")
    @@ ("<%= attr.type %>" :> "attr.type")
    @@ ("<%= index < modelAttributes.length - 1 ? ',' : '' %>" :> SeparatorExpr)

\* the conditions of the templates: the variable tested, and the value it
\* is compared with (<<>>: tested for being non-empty)
Guards ==
  ("<% if (modelImport) { %>" :> [var |-> "modelImport", equals |-> <<>>])
    @@ ("<% if (modelAttributes && modelAttributes.length > 0) { %>"
          :> [var |-> "modelAttributes", equals |-> <<>>])
    @@ ("<% if (cloudProvider && cloudProvider === 's3') { %>"
          :> [var |-> "cloudProvider", equals |-> <<"s3">>])
    @@ ("<% if (cloudProvider && cloudProvider === 'gcp') { %>"
          :> [var |-> "cloudProvider", equals |-> <<"gcp">>])

GuardHolds(g, data) ==
  IF g.equals = <<>> THEN data[g.var] # <<>> ELSE data[g.var] = g.equals

\* the data one iteration of modelAttributes.forEach evaluates its body with
loopData(data, items, index) ==
  ("attr.name" :> items[index].name)
    @@ ("attr.type" :> <<items[index].type>>)
    @@ (SeparatorExpr :> IF index < Len(items) THEN <<",">> ELSE <<>>)
    @@ data

\* the compiled template applied to data; skip counts the enclosing blocks
\* whose branch is not taken
RECURSIVE renderTokens(_, _, _)
RECURSIVE renderEach(_, _, _, _)
renderEach(body, data, items, index) ==
  IF index > Len(items) THEN [ok |-> TRUE, text |-> <<>>]
  ELSE
    LET one == renderTokens(body, loopData(data, items, index), 0)
        more == renderEach(body, data, items, index + 1)
    IN  IF one.ok /\ more.ok
        THEN [ok |-> TRUE, text |-> one.text \o more.text]
        ELSE [ok |-> FALSE, text |-> <<>>]

\* a rendered text put after the text t
prepend(t, r) == [ok |-> r.ok, text |-> IF r.ok THEN t \o r.text ELSE <<>>]
failed == [ok |-> FALSE, text |-> <<>>]

renderTokens(src, data, skip) ==
  IF src = <<>> THEN [ok |-> TRUE, text |-> <<>>]
  ELSE
    LET tok == Head(src)
        rest == Tail(src)
    IN  CASE tok \in DOMAIN Guards /\ skip > 0 ->
               renderTokens(rest, data, skip + 1)
          [] tok \in DOMAIN Guards /\ skip = 0 ->
               IF Guards[tok].var \notin DOMAIN data THEN failed
               ELSE renderTokens(rest, data,
                                 IF GuardHolds(Guards[tok], data) THEN 0 ELSE 1)
          [] tok = ElseBlock ->
               renderTokens(rest, data,
                            IF skip = 0 THEN 1 ELSE IF skip = 1 THEN 0 ELSE skip)
          [] tok = EndBlock ->
               renderTokens(rest, data, IF skip > 0 THEN skip - 1 ELSE 0)
          [] tok \notin DOMAIN Guards \cup {ElseBlock, EndBlock} /\ skip > 0 ->
               renderTokens(rest, data, skip)
          [] tok = ForEachStart /\ skip = 0 ->
               IF "modelAttributes" \notin DOMAIN data
                    \/ ~\E i \in 1..Len(rest) : rest[i] = ForEachEnd
               THEN failed
               ELSE
                 LET end == Min({i \in 1..Len(rest) : rest[i] = ForEachEnd})
                     loop == renderEach(SubSeq(rest, 1, end - 1), data,
                                        data["modelAttributes"], 1)
                 IN  IF ~loop.ok THEN failed
                     ELSE prepend(loop.text,
                                  renderTokens(SubSeq(rest, end + 1, Len(rest)),
                                               data, 0))
          [] tok \in DOMAIN Interpolations /\ skip = 0 ->
               IF Interpolations[tok] \notin DOMAIN data THEN failed
               ELSE prepend(data[Interpolations[tok]],
                            renderTokens(rest, data, 0))
          [] OTHER -> prepend(<<tok>>, renderTokens(rest, data, 0))

_renderTemplate(content, data) == renderTokens(content, data, 0)

(***************************************************************************)
(* The template sources under lib/templates that the model uses.           *)
(***************************************************************************)
ServiceTemplate ==
  << "/** ", "<%= moduleNameCapitalized %>", " Service */",
     "<%= modelImport %>",
     "<% if (modelImport) { %>",
       "const ", "<%= moduleName %>", "Model = db.", "<%= moduleName %>", ";",
     "<% } %>",
     "<% if (modelAttributes && modelAttributes.length > 0) { %>",
       "const paginationService = require(", "<%= paginationServicePath %>", ");",
     "<% } %>",
     "module.exports = {", "<%= crudServices %>", "};" >>

RedisTemplate == << "redisService" >>

FileUploadTemplate ==
  << "fileUploadService",
     "<% if (cloudProvider && cloudProvider === 's3') { %>", "s3 storage", "<% } %>",
     "<% if (cloudProvider && cloudProvider === 'gcp') { %>", "gcp storage", "<% } %>",
     "local storage" >>

\* module/controller.js, module/route.js and module/model.js are not part of
\* the sources at hand; they are modelled by the data the specification says
\* the artifact templates are rendered with
ControllerTemplate ==
  << "/** ", "<%= moduleName %>", " Controller */",
     "<%= serviceImport %>",
     "module.exports = {", "<%= crudMethods %>", "};" >>

RouteTemplate ==
  << "const router = express.Router();",
     "<%= controllerImport %>",
     "<%= crudRoutes %>",
     "module.exports = router;" >>

ModelTemplate == << "/** ", "<%= moduleName %>", " Model */" >>

SequelizeModelTemplate ==
  << "class ", "<%= moduleName %>", " extends Model {}",
     "<%= moduleName %>", ".init({",
     "<% if (modelAttributes && modelAttributes.length > 0) { %>",
       ForEachStart,
         "<%= attr.name %>", ": { type: DataTypes.", "<%= attr.type %>",
         ", allowNull: true }",
         "<%= index < modelAttributes.length - 1 ? ',' : '' %>",
       ForEachEnd,
     ElseBlock,
       "// No custom attributes defined",
     EndBlock,
     "}, { sequelize, modelName: ", "<%= moduleName %>",
     ", tableName: ", "<%= moduleName %>", " });",
     "return ", "<%= moduleName %>", ";" >>

CrudMethodsTemplate ==
  << "create", "<%= moduleName %>", ": ", "<%= moduleName %>", "Service.create",
     "<%= moduleName %>", "(req.body),",
     "get", "<%= moduleName %>", ": ", "<%= moduleName %>", "Service.get",
     "<%= moduleName %>", "(req.query),",
     "update", "<%= moduleName %>", ": ", "<%= moduleName %>", "Service.update",
     "<%= moduleName %>", "(req.params.id, req.body),",
     "delete", "<%= moduleName %>", ": ", "<%= moduleName %>", "Service.delete",
     "<%= moduleName %>", "(req.params.id)," >>

CrudRoutesTemplate ==
  << "router.get(/, ", "<%= moduleName %>", "Controller.get",
     "<%= moduleNameCapitalized %>", ");",
     "router.post(/, ", "<%= moduleName %>", "Controller.create",
     "<%= moduleNameCapitalized %>", ");",
     "router.put(/:id, ", "<%= moduleName %>", "Controller.update",
     "<%= moduleNameCapitalized %>", ");",
     "router.delete(/:id, ", "<%= moduleName %>", "Controller.delete",
     "<%= moduleNameCapitalized %>", ");" >>

CrudServicesTemplate ==
  << "create", "<%= moduleNameCapitalized %>", ": async function (data) {",
     "<% if (modelAttributes && modelAttributes.length > 0) { %>",
       "<%= moduleName %>", "Model.create(data)",
     ElseBlock, "// create placeholder", EndBlock, "},",
     "get", "<%= moduleNameCapitalized %>", ": async function (req) {",
     "<% if (modelAttributes && modelAttributes.length > 0) { %>",
       "paginationService.findWithPagination(", "<%= moduleName %>", "Model, req)",
     ElseBlock, "// get placeholder", EndBlock, "},",
     "update", "<%= moduleNameCapitalized %>", ": async function (id, data) {",
     "<% if (modelAttributes && modelAttributes.length > 0) { %>",
       "<%= moduleName %>", "Model.update(data, { where: { id: id } })",
     ElseBlock, "// update placeholder", EndBlock, "},",
     "delete", "<%= moduleNameCapitalized %>", ": async function (id) {",
     "<% if (modelAttributes && modelAttributes.length > 0) { %>",
       "<%= moduleName %>", "Model.destroy({ where: { id: id } })",
     ElseBlock, "// delete placeholder", EndBlock, "}," >>

Templates ==
  ("module/service.js" :> ServiceTemplate)
    @@ ("module/controller.js" :> ControllerTemplate)
    @@ ("module/route.js" :> RouteTemplate)
    @@ ("module/model.js" :> ModelTemplate)
    @@ ("module/models/sequelize.model.js" :> SequelizeModelTemplate)
    @@ ("module/cruds/crud.methods.js" :> CrudMethodsTemplate)
    @@ ("module/cruds/crud.routes.js" :> CrudRoutesTemplate)
    @@ ("module/cruds/crud.services.js" :> CrudServicesTemplate)
    @@ ("utils/redis/redisService.js" :> RedisTemplate)
    @@ ("utils/fileupload/fileUploadService.js" :> FileUploadTemplate)

(***************************************************************************)
(* The Structure Resolver: fileHelper._addDirsAndFiles.                    *)
(* A run is carried as [fs, ops, outcome]: the tree, the directory         *)
(* creations and file writes done so far in order, and "ok" or "exit"      *)
(* (the catch block and the missing-template branch end the process).      *)
(***************************************************************************)
IsPrefix(p, q) == Len(p) <= Len(q) /\ SubSeq(q, 1, Len(p)) = p

\* fs.mkdirSync(p, {recursive: true}): fails when a component of p is a file
mkdirSync(f, p) ==
  IF \E n \in 1..Len(p) : IsFile(f, SubSeq(p, 1, n))
  THEN [ok |-> FALSE, fs |-> f]
  ELSE [ok |-> TRUE,
        fs |-> [q \in DOMAIN f \cup {SubSeq(p, 1, n) : n \in 1..Len(p)} |->
                  IF q \in DOMAIN f THEN f[q] ELSE DirNode]]

\* one path of a "dir" item, created even when it exists
addDir_noExistsCheck(st, dir) ==
  LET r == mkdirSync(st.fs, dir)
  IN  IF r.ok
      THEN [fs |-> r.fs, outcome |-> "ok",
            ops |-> Append(st.ops, [op |-> "mkdir", path |-> dir])]
      ELSE [st EXCEPT !.outcome = "exit"]

\* one path of a "dir" item
addDir(st, dir) ==
  IF existsSync(st.fs, dir) THEN st
  ELSE LET r == mkdirSync(st.fs, dir)
       IN  IF r.ok
           THEN [fs |-> r.fs, outcome |-> "ok",
                 ops |-> Append(st.ops, [op |-> "mkdir", path |-> dir])]
           ELSE [st EXCEPT !.outcome = "exit"]

RECURSIVE addDirs(_, _)
addDirs(st, names) ==
  IF names = <<>> \/ st.outcome # "ok" THEN st
  ELSE addDirs(addDir(st, Head(names)), Tail(names))

\* the first forEach: the "dir" items, in order
RECURSIVE createDirectories(_, _)
createDirectories(st, structure) ==
  IF structure = <<>> \/ st.outcome # "ok" THEN st
  ELSE createDirectories(
         IF Head(structure).type = "dir"
         THEN addDirs(st, Head(structure).name) ELSE st,
         Tail(structure))

\* the content of a "file" item if its template were rendered with an
\* empty mapping when the item has no templateData
resolveContent_renderWithoutData(item) ==
  LET content == item.content
  IN  IF isEmpty(content) /\ item.template # ""
      THEN IF item.template \in DOMAIN Templates
           THEN _renderTemplate(Templates[item.template],
                                IF item.hasTemplateData THEN item.templateData
                                ELSE [v \in {} |-> <<>>])
           ELSE [ok |-> FALSE, text |-> <<>>]
      ELSE [ok |-> TRUE, text |-> content]

\* the content written for a "file" item whose target does not exist
resolveContent(item) ==
  LET content == item.content
  IN  IF isEmpty(content) /\ item.template # ""
      THEN IF item.template \in DOMAIN Templates
           THEN IF item.hasTemplateData
                THEN _renderTemplate(Templates[item.template], item.templateData)
                ELSE [ok |-> TRUE, text |-> Templates[item.template]]
           ELSE [ok |-> FALSE, text |-> <<>>]
      ELSE [ok |-> TRUE, text |-> content]

\* a write that leaves an empty file behind when it fails
writeItem_leavesEmptyFile(st, item) ==
  LET c == resolveContent(item)
      w == writeFileSync(st.fs, item.name, c.text)
      e == writeFileSync(st.fs, item.name, <<>>)
  IN  IF c.ok /\ w.ok
      THEN [fs |-> w.fs, outcome |-> "ok",
            ops |-> Append(st.ops, [op |-> "write", path |-> item.name])]
      ELSE [st EXCEPT !.outcome = "exit", !.fs = e.fs]

writeItem(st, item) ==
  LET c == resolveContent(item)
      w == writeFileSync(st.fs, item.name, c.text)
  IN  IF c.ok /\ w.ok
      THEN [fs |-> w.fs, outcome |-> "ok",
            ops |-> Append(st.ops, [op |-> "write", path |-> item.name])]
      ELSE [st EXCEPT !.outcome = "exit"]

\* one "file" item, written whether or not its target exists
addFile_overwrite(st, item) == writeItem(st, item)

\* one "file" item
addFile(st, item) ==
  IF existsSync(st.fs, item.name) THEN st ELSE writeItem(st, item)

\* the second forEach: the "file" items, in order
RECURSIVE createFiles(_, _)
createFiles(st, structure) ==
  IF structure = <<>> \/ st.outcome # "ok" THEN st
  ELSE createFiles(
         IF Head(structure).type = "file"
         THEN addFile(st, Head(structure)) ELSE st,
         Tail(structure))

\* every item handled where it stands in the plan, in one pass
RECURSIVE singlePass(_, _)
singlePass(st, structure) ==
  IF structure = <<>> \/ st.outcome # "ok" THEN st
  ELSE singlePass(
         IF Head(structure).type = "dir"
         THEN addDirs(st, Head(structure).name)
         ELSE addFile(st, Head(structure)),
         Tail(structure))

_addDirsAndFiles_singlePass(f, structure) ==
  singlePass([fs |-> f, ops |-> <<>>, outcome |-> "ok"], structure)

_addDirsAndFiles(f, structure) ==
  createFiles(
    createDirectories([fs |-> f, ops |-> <<>>, outcome |-> "ok"], structure),
    structure)

(***************************************************************************)
(* Specification SpecMat: runs of the Structure Resolver with one plan     *)
(* against one target tree.                                                *)
(***************************************************************************)
SrcDir == <<"src">>
UtilsDir == <<"src", "utils">>
RedisFile == <<"src", "utils", "redis.js">>
AppFile == <<"src", "app.js">>
AppSubDir == <<"src", "app.js", "sub">>

DirItem(names) ==
  [type |-> "dir", name |-> names, content |-> <<>>, template |-> "",
   hasTemplateData |-> FALSE, templateData |-> <<>>, force |-> FALSE]
FileItem(path, content, template, hasData, data, force) ==
  [type |-> "file", name |-> path, content |-> content, template |-> template,
   hasTemplateData |-> hasData, templateData |-> data, force |-> force]

\* template data that defines every variable module/service.js evaluates
ServiceData ==
  ("moduleNameCapitalized" :> <<"U", "s", "e", "r">>)
    @@ ("moduleName" :> <<"u", "s", "e", "r">>)
    @@ ("modelImport" :> <<"const db = require(models);">>)
    @@ ("modelAttributes" :> <<>>)
    @@ ("crudServices" :> <<>>)
\* template data without moduleNameCapitalized
ServiceDataShort ==
  ("moduleName" :> <<"u", "s", "e", "r">>)
    @@ ("modelImport" :> <<"const db = require(models);">>)
    @@ ("modelAttributes" :> <<>>)
    @@ ("crudServices" :> <<>>)

FileItemsAt(path) ==
  { FileItem(path, <<"new">>, "", FALSE, <<>>, FALSE),
    FileItem(path, <<"new">>, "", FALSE, <<>>, TRUE),
    FileItem(path, <<>>, "utils/redis/redisService.js", FALSE, <<>>, FALSE),
    FileItem(path, <<>>, "module/service.js", TRUE, ServiceData, FALSE),
    FileItem(path, <<>>, "module/service.js", TRUE, ServiceDataShort, FALSE),
    FileItem(path, <<>>, "module/service.js", FALSE, <<>>, FALSE),
    FileItem(path, <<"new">>, "utils/redis/redisService.js", FALSE, <<>>, FALSE),
    FileItem(path, <<>>, "module/nosuch.js", FALSE, <<>>, FALSE),
    FileItem(path, <<>>, "", FALSE, <<>>, FALSE) }

PlanItems ==
  {DirItem(<<UtilsDir>>), DirItem(<<AppSubDir>>)}
    \cup FileItemsAt(RedisFile) \cup FileItemsAt(AppFile)

Plans == UNION {[1..n -> PlanItems] : n \in 0..MaxPlanLen}

OldFile == FileNode(<<"old">>)
MatTrees ==
  { EmptyTree,
    Put(EmptyTree, SrcDir, DirNode),
    Put(Put(EmptyTree, SrcDir, DirNode), UtilsDir, DirNode),
    Put(Put(Put(EmptyTree, SrcDir, DirNode), UtilsDir, DirNode), RedisFile, OldFile),
    Put(Put(EmptyTree, SrcDir, DirNode), AppFile, OldFile),
    Put(Put(Put(Put(EmptyTree, SrcDir, DirNode), UtilsDir, DirNode),
            RedisFile, OldFile), AppFile, OldFile) }

InitMat ==
  /\ fs0 \in MatTrees
  /\ plan \in Plans
  /\ fs = fs0
  /\ fsPre = fs0
  /\ hist = <<>>
  /\ project = NoProject

AddDirsAndFiles ==
  LET r == _addDirsAndFiles(fs, plan)
  IN  /\ Len(hist) < MaxRuns
      /\ fs' = r.fs
      /\ fsPre' = fs
      /\ hist' = Append(hist, [op |-> "addDirsAndFiles", ops |-> r.ops,
                               outcome |-> r.outcome])
      /\ UNCHANGED <<fs0, plan, project>>

NextMat == AddDirsAndFiles

SpecMat == InitMat /\ [][NextMat]_vars

(***************************************************************************)
(* Claims about the Structure Resolver (SpecMat).                          *)
(***************************************************************************)
MatCalled == hist # <<>> /\ Last.op = "addDirsAndFiles"
NoForce(structure) == \A i \in 1..Len(structure) : ~structure[i].force
FileItemsOf(structure) == SelectSeq(structure, LAMBDA it : it.type = "file")
DirItemsOf(structure) == SelectSeq(structure, LAMBDA it : it.type = "dir")

\* C1: a run without force never changes the content of a file that existed
\* before the call; a file item whose target exists is skipped silently and
\* counts as success.
C1_ExistingFilesKept ==
  (MatCalled /\ NoForce(plan))
    => /\ \A p \in DOMAIN fsPre :
            IsFile(fsPre, p) => p \in DOMAIN fs /\ fs[p] = fsPre[p]
       /\ \A i \in 1..Len(Last.ops) :
            Last.ops[i].op = "write" => ~existsSync(fsPre, Last.ops[i].path)
       /\ (/\ DirItemsOf(plan) = <<>>
           /\ \A i \in 1..Len(plan) : existsSync(fsPre, plan[i].name))
            => Last.outcome = "ok" /\ Last.ops = <<>>

\* C1 witness: a run without force met a file item whose target was a file
C1_Witness ==
  /\ MatCalled
  /\ NoForce(plan)
  /\ \E i \in 1..Len(plan) :
       /\ plan[i].type = "file"
       /\ IsFile(fsPre, plan[i].name)
       /\ plan[i].content # fsPre[plan[i].name].content
  /\ Last.outcome = "ok"

\* C2: a file item with force = true whose target exists is overwritten
\* with the newly resolved content.
C2_ForceOverwrites ==
  MatCalled
    => \A i \in 1..Len(plan) :
         (/\ plan[i].type = "file"
          /\ plan[i].force
          /\ IsFile(fsPre, plan[i].name)
          /\ Last.outcome = "ok"
          /\ \A j \in 1..Len(plan) : j # i => plan[j].name # plan[i].name)
           => fs[plan[i].name].content = resolveContent(plan[i]).text

\* s is t with some of its elements left out
RECURSIVE IsSubsequence(_, _)
IsSubsequence(s, t) ==
  IF s = <<>> THEN TRUE
  ELSE IF t = <<>> THEN FALSE
  ELSE IF Head(s) = Head(t) THEN IsSubsequence(Tail(s), Tail(t))
  ELSE IsSubsequence(s, Tail(t))

RECURSIVE Flatten(_)
Flatten(ss) == IF ss = <<>> THEN <<>> ELSE Head(ss) \o Flatten(Tail(ss))

\* the paths the plan names, in plan order
PlanDirPaths(structure) ==
  Flatten([i \in 1..Len(DirItemsOf(structure)) |-> DirItemsOf(structure)[i].name])
PlanFilePaths(structure) ==
  [i \in 1..Len(FileItemsOf(structure)) |-> FileItemsOf(structure)[i].name]
OpPaths(ops, kind) ==
  LET sel == SelectSeq(ops, LAMBDA o : o.op = kind)
  IN  [i \in 1..Len(sel) |-> sel[i].path]

\* C9: every dir item is processed, in plan order, before any file item is
\* written, and the file items are written in plan order; a file is written
\* only once its parent directory exists, wherever in the plan the dir item
\* naming that directory stands.
C9_DirsBeforeFiles ==
  MatCalled
    => LET ops == Last.ops
       IN  /\ \A i, j \in 1..Len(ops) :
                (ops[i].op = "write" /\ ops[j].op = "mkdir") => j < i
           /\ IsSubsequence(OpPaths(ops, "mkdir"), PlanDirPaths(plan))
           /\ IsSubsequence(OpPaths(ops, "write"), PlanFilePaths(plan))
           /\ \A i \in 1..Len(ops) :
                ops[i].op = "write"
                  => \/ IsDir(fsPre, Parent(ops[i].path))
                     \/ \E j \in 1..(i - 1) :
                          /\ ops[j].op = "mkdir"
                          /\ IsPrefix(Parent(ops[i].path), ops[j].path)
           /\ (\E j \in 1..Len(ops) : ops[j].op = "write")
                => \A k \in 1..Len(PlanDirPaths(plan)) :
                     \/ existsSync(fsPre, PlanDirPaths(plan)[k])
                     \/ \E j \in 1..Len(ops) :
                          /\ ops[j].op = "mkdir"
                          /\ IsPrefix(PlanDirPaths(plan)[k], ops[j].path)

\* C9 witness: a file item stood before the dir item naming its parent,
\* the parent did not exist, and the file was written after the directory
C9_Witness ==
  /\ MatCalled
  /\ \E i, k \in 1..Len(plan) :
       /\ i < k
       /\ plan[i].type = "file"
       /\ plan[k].type = "dir"
       /\ plan[k].name = <<Parent(plan[i].name)>>
       /\ ~existsSync(fsPre, Parent(plan[i].name))
       /\ Last.ops = << [op |-> "mkdir", path |-> Parent(plan[i].name)],
                        [op |-> "write", path |-> plan[i].name] >>

\* C10: running the resolver again with the same plan against the same
\* target changes nothing: the second run creates no directory, writes no
\* file and overwrites nothing.
C10_SecondRunIdle ==
  (Len(hist) >= 2 /\ NoForce(plan))
    => /\ Last.op = "addDirsAndFiles"
       /\ Last.ops = <<>>
       /\ fs = fsPre
       /\ Last.outcome = hist[Len(hist) - 1].outcome

\* C10 witness: the first run created a directory and wrote a file, and a
\* second run with the same plan was made
C10_Witness ==
  /\ Len(hist) >= 2
  /\ NoForce(plan)
  /\ \E i, j \in 1..Len(hist[1].ops) :
       hist[1].ops[i].op = "mkdir" /\ hist[1].ops[j].op = "write"

\* the file items of the plan that the last run wrote: the first file item
\* naming a path that did not exist before the run and is a file after it
WrittenItems ==
  { i \in 1..Len(plan) :
      /\ plan[i].type = "file"
      /\ ~existsSync(fsPre, plan[i].name)
      /\ IsFile(fs, plan[i].name)
      /\ \A j \in 1..(i - 1) :
           plan[j].type = "file" => plan[j].name # plan[i].name }
EmptyMapping == [v \in {} |-> <<>>]

\* C11: a file item whose target does not exist and whose template is set
\* is written with the template rendered with the item's templateData, or
\* with an empty mapping when it has none; an item without template is
\* written with its content verbatim (the empty text when it has none).
C11_TemplateRendered ==
  MatCalled
    => \A i \in WrittenItems :
         LET it == plan[i]
             data == IF it.hasTemplateData THEN it.templateData
                     ELSE EmptyMapping
         IN  IF it.template # ""
             THEN /\ it.template \in DOMAIN Templates
                  /\ _renderTemplate(Templates[it.template], data).ok
                  /\ fs[it.name].content
                       = _renderTemplate(Templates[it.template], data).text
             ELSE fs[it.name].content = it.content

\* C11 as the code has it: the template is used only when the item's
\* content is empty; it is rendered with templateData when the item has
\* templateData and copied unrendered when it has none; in every other case
\* the content is written verbatim.
C11_TemplateRenderedWithData ==
  MatCalled
    => /\ \A i \in WrittenItems :
         LET it == plan[i]
         IN  IF it.content = <<>> /\ it.template # ""
             THEN /\ it.template \in DOMAIN Templates
                  /\ it.hasTemplateData
                       => /\ _renderTemplate(Templates[it.template],
                                             it.templateData).ok
                          /\ fs[it.name].content
                               = _renderTemplate(Templates[it.template],
                                                 it.templateData).text
                  /\ ~it.hasTemplateData
                       => fs[it.name].content = Templates[it.template]
             ELSE fs[it.name].content = it.content
       /\ (/\ plan # <<>>
           /\ DirItemsOf(plan) = <<>>
           /\ plan[1].content = <<>>
           /\ plan[1].template \in DOMAIN Templates
           /\ ~plan[1].hasTemplateData
           /\ ~existsSync(fsPre, plan[1].name)
           /\ IsDir(fsPre, Parent(plan[1].name)))
            => 1 \in WrittenItems

\* C11 witness: one run wrote a rendered template, and one run wrote a
\* template with interpolations unrendered because the item had no data
C11_Witness ==
  /\ MatCalled
  /\ \E i \in WrittenItems :
       /\ plan[i].template = "module/service.js"
       /\ ~plan[i].hasTemplateData
       /\ fs[plan[i].name].content = ServiceTemplate
       /\ \E k \in 1..Len(ServiceTemplate) :
            ServiceTemplate[k] \in DOMAIN Interpolations
  /\ \E i \in WrittenItems :
       /\ plan[i].hasTemplateData
       /\ fs[plan[i].name].content # Templates[plan[i].template]

\* the paths the last run wrote, in the order it wrote them
Written == OpPaths(Last.ops, "write")
\* the tree of the last run when its second pass began: the tree it left
\* without the files it wrote
BeforeFiles ==
  [p \in DOMAIN fs \ {Written[k] : k \in 1..Len(Written)} |-> fs[p]]
\* the file items the second pass has to write, in plan order: the first
\* item of each path that did not exist when the pass began
Needed ==
  LET files == FileItemsOf(plan)
      idx == { i \in 1..Len(files) :
                 /\ ~existsSync(BeforeFiles, files[i].name)
                 /\ \A j \in 1..(i - 1) : files[j].name # files[i].name }
      pick[i \in 0..Len(files)] ==
        IF i = 0 THEN <<>>
        ELSE IF i \in idx THEN Append(pick[i - 1], files[i]) ELSE pick[i - 1]
  IN  pick[Len(files)]
TemplateMissing(it) ==
  it.content = <<>> /\ it.template # "" /\ it.template \notin DOMAIN Templates

\* C12: a run that fails at a file item (its template source is missing or
\* the write fails) stops there: the failing item's file is not created, no
\* later item is written, and every directory and file made before stays as
\* written; the files written are a prefix of the plan's file order.
C12_AbortKeepsPrefix ==
  MatCalled
    => /\ Last.outcome = "exit"
            => /\ Len(Written) <= Len(Needed)
               /\ \A k \in 1..Len(Written) : Written[k] = Needed[k].name
               /\ \A k \in (Len(Written) + 1)..Len(Needed) :
                    ~existsSync(fs, Needed[k].name)
               /\ DirItemsOf(plan) = <<>> => Len(Written) < Len(Needed)
               /\ \A p \in DOMAIN fsPre : p \in DOMAIN fs /\ fs[p] = fsPre[p]
               /\ \A i \in 1..Len(Last.ops) :
                    IF Last.ops[i].op = "mkdir"
                    THEN IsDir(fs, Last.ops[i].path)
                    ELSE IsFile(fs, Last.ops[i].path)
       /\ \A k \in 1..Len(Needed) :
            \/ TemplateMissing(Needed[k])
            \/ ~IsDir(BeforeFiles, Parent(Needed[k].name))
            => /\ Last.outcome = "exit"
               /\ Len(Written) < k

\* C12 witness: a run wrote one file and then stopped at an item whose
\* template source is missing
C12_Witness ==
  /\ MatCalled
  /\ Last.outcome = "exit"
  /\ Len(Written) = 1
  /\ Len(Needed) = 2
  /\ TemplateMissing(Needed[2])
  /\ IsFile(fs, Needed[1].name)
  /\ ~existsSync(fs, Needed[2].name)

(***************************************************************************)
(* Characters.  Identifiers and attribute strings are sequences of         *)
(* one-character strings, so that the regular expressions and the case     *)
(* conversions of the code can be computed.                                *)
(***************************************************************************)
LowerSeq ==
  <<"a", "b", "c", "d", "e", "f", "g", "h", "i", "j", "k", "l", "m",
    "n", "o", "p", "q", "r", "s", "t", "u", "v", "w", "x", "y", "z">>
UpperSeq ==
  <<"A", "B", "C", "D", "E", "F", "G", "H", "I", "J", "K", "L", "M",
    "N", "O", "P", "Q", "R", "S", "T", "U", "V", "W", "X", "Y", "Z">>
Range(s) == {s[i] : i \in 1..Len(s)}
LowerLetters == Range(LowerSeq)
UpperLetters == Range(UpperSeq)
Digits == {"0", "1", "2", "3", "4", "5", "6", "7", "8", "9"}

IndexIn(s, c) == CHOOSE i \in 1..Len(s) : s[i] = c
toUpperCaseChar(c) == IF c \in LowerLetters THEN UpperSeq[IndexIn(LowerSeq, c)] ELSE c
toLowerCaseChar(c) == IF c \in UpperLetters THEN LowerSeq[IndexIn(UpperSeq, c)] ELSE c
toLowerCase(text) == [i \in 1..Len(text) |-> toLowerCaseChar(text[i])]

\* the characters of an identifier as one file-name string
RECURSIVE Str(_)
Str(chars) == IF chars = <<>> THEN "" ELSE Head(chars) \o Str(Tail(chars))

\* moduleName.charAt(0).toUpperCase() + moduleName.slice(1)
capitalize(name) ==
  IF name = <<>> THEN <<>> ELSE <<toUpperCaseChar(Head(name))>> \o Tail(name)

(***************************************************************************)
(* The Attribute Parser: moduleHelper._parseModelAttributes.               *)
(***************************************************************************)
MAX_ATTRIBUTES == 30
MAX_INPUT_LENGTH == 2000

\* the mapping with date stored as a string
_dataTypeMapping_dateAsString ==
  (<<"s", "t", "r", "i", "n", "g">> :> "STRING")
    @@ (<<"n", "u", "m", "b", "e", "r">> :> "BIGINT")
    @@ (<<"i", "n", "t", "e", "g", "e", "r">> :> "INTEGER")
    @@ (<<"b", "o", "o", "l">> :> "BOOLEAN")
    @@ (<<"b", "o", "o", "l", "e", "a", "n">> :> "BOOLEAN")
    @@ (<<"f", "l", "o", "a", "t">> :> "FLOAT")
    @@ (<<"d", "a", "t", "e">> :> "STRING")

\* the mapping with number and integer giving the same type
_dataTypeMapping_numberAsInteger ==
  (<<"s", "t", "r", "i", "n", "g">> :> "STRING")
    @@ (<<"n", "u", "m", "b", "e", "r">> :> "INTEGER")
    @@ (<<"i", "n", "t", "e", "g", "e", "r">> :> "INTEGER")
    @@ (<<"b", "o", "o", "l">> :> "BOOLEAN")
    @@ (<<"b", "o", "o", "l", "e", "a", "n">> :> "BOOLEAN")
    @@ (<<"f", "l", "o", "a", "t">> :> "FLOAT")
    @@ (<<"d", "a", "t", "e">> :> "DATE")

_dataTypeMapping ==
  (<<"s", "t", "r", "i", "n", "g">> :> "STRING")
    @@ (<<"n", "u", "m", "b", "e", "r">> :> "BIGINT")
    @@ (<<"i", "n", "t", "e", "g", "e", "r">> :> "INTEGER")
    @@ (<<"b", "o", "o", "l">> :> "BOOLEAN")
    @@ (<<"b", "o", "o", "l", "e", "a", "n">> :> "BOOLEAN")
    @@ (<<"f", "l", "o", "a", "t">> :> "FLOAT")
    @@ (<<"d", "a", "t", "e">> :> "DATE")

\* the keys every JavaScript object inherits with a truthy value, so that
\* the lookup this._dataTypeMapping[key] succeeds for them
InheritedKeys ==
  (<<"c", "o", "n", "s", "t", "r", "u", "c", "t", "o", "r">> :> "[Function: Object]")
    @@ (<<"_", "_", "p", "r", "o", "t", "o", "_", "_">> :> "[Object: null prototype]")

\* this._dataTypeMapping[key], "" standing for undefined
dataTypeLookup(key) ==
  IF key \in DOMAIN _dataTypeMapping THEN _dataTypeMapping[key]
  ELSE IF key \in DOMAIN InheritedKeys THEN InheritedKeys[key]
  ELSE ""

\* /^[a-zA-Z_][a-zA-Z0-9_]*$/.test(name)
columnNameFormat(name) ==
  /\ name # <<>>
  /\ name[1] \in LowerLetters \cup UpperLetters \cup {"_"}
  /\ \A i \in 2..Len(name) :
       name[i] \in LowerLetters \cup UpperLetters \cup Digits \cup {"_"}

\* Object.keys(this._dataTypeMapping)
supportedTypes ==
  << <<"s", "t", "r", "i", "n", "g">>, <<"n", "u", "m", "b", "e", "r">>,
     <<"i", "n", "t", "e", "g", "e", "r">>, <<"b", "o", "o", "l">>,
     <<"b", "o", "o", "l", "e", "a", "n">>, <<"f", "l", "o", "a", "t">>,
     <<"d", "a", "t", "e">> >>

\* the errors of the parser: the head of the message, and the supported
\* types where the message lists them
NoError == [message |-> "", supportedTypes |-> <<>>]
InputTooLarge == [message |-> "Input too large", supportedTypes |-> <<>>]
TooManyAttributes == [message |-> "Too many attributes", supportedTypes |-> <<>>]
InvalidAttributeFormat ==
  [message |-> "Invalid attribute format", supportedTypes |-> <<>>]
UnsupportedDataType ==
  [message |-> "Unsupported data type", supportedTypes |-> supportedTypes]
InvalidColumnName == [message |-> "Invalid column name", supportedTypes |-> <<>>]

\* one non-empty trimmed pair: [ok, attribute, error]
parsePair(trimmedPair) ==
  LET parts == split(trimmedPair, ":")
      columnName == parts[1]
      dataType == IF Len(parts) >= 2 THEN parts[2] ELSE <<>>
      trimmedColumnName == trim(columnName)
      trimmedDataType == toLowerCase(trim(dataType))
      none == [name |-> <<>>, type |-> ""]
  IN  IF columnName = <<>> \/ dataType = <<>>
      THEN [ok |-> FALSE, attribute |-> none, error |-> InvalidAttributeFormat]
      ELSE IF dataTypeLookup(trimmedDataType) = ""
      THEN [ok |-> FALSE, attribute |-> none, error |-> UnsupportedDataType]
      ELSE IF ~columnNameFormat(trimmedColumnName)
      THEN [ok |-> FALSE, attribute |-> none, error |-> InvalidColumnName]
      ELSE [ok |-> TRUE,
            attribute |-> [name |-> trimmedColumnName,
                           type |-> dataTypeLookup(trimmedDataType)],
            error |-> NoError]

\* the loop over the pairs if a blank pair were an error
RECURSIVE parsePairs_blankFails(_)
parsePairs_blankFails(attributePairs) ==
  IF attributePairs = <<>>
  THEN [ok |-> TRUE, attributes |-> <<>>, error |-> NoError]
  ELSE
    LET trimmedPair == trim(Head(attributePairs))
        rest == parsePairs_blankFails(Tail(attributePairs))
        one == parsePair(trimmedPair)
    IN  IF trimmedPair = <<>>
        THEN [ok |-> FALSE, attributes |-> <<>>,
              error |-> InvalidAttributeFormat]
        ELSE IF ~one.ok
        THEN [ok |-> FALSE, attributes |-> <<>>, error |-> one.error]
        ELSE IF ~rest.ok THEN rest
        ELSE [ok |-> TRUE,
              attributes |-> <<one.attribute>> \o rest.attributes,
              error |-> NoError]

\* the loop over the pairs, which the first failing pair ends:
\* [ok, attributes, error]
RECURSIVE parsePairs(_)
parsePairs(attributePairs) ==
  IF attributePairs = <<>>
  THEN [ok |-> TRUE, attributes |-> <<>>, error |-> NoError]
  ELSE
    LET trimmedPair == trim(Head(attributePairs))
        rest == parsePairs(Tail(attributePairs))
    IN  IF trimmedPair = <<>> THEN rest
        ELSE LET one == parsePair(trimmedPair)
             IN  IF ~one.ok
                 THEN [ok |-> FALSE, attributes |-> <<>>, error |-> one.error]
                 ELSE IF ~rest.ok THEN rest
                 ELSE [ok |-> TRUE,
                       attributes |-> <<one.attribute>> \o rest.attributes,
                       error |-> NoError]

_parseModelAttributes(attributesString) ==
  IF attributesString = <<>> \/ trim(attributesString) = <<>>
  THEN [ok |-> TRUE, attributes |-> <<>>, error |-> NoError]
  ELSE IF Len(attributesString) > MAX_INPUT_LENGTH
  THEN [ok |-> FALSE, attributes |-> <<>>, error |-> InputTooLarge]
  ELSE LET attributePairs == split(attributesString, ",")
       IN  IF Len(attributePairs) > MAX_ATTRIBUTES
           THEN [ok |-> FALSE, attributes |-> <<>>, error |-> TooManyAttributes]
           ELSE parsePairs(attributePairs)

(***************************************************************************)
(* Module names: moduleHelper._validateModuleName.                         *)
(***************************************************************************)
MaxModuleNameLength == 20

\* the validation if it rejected names of 20 characters, as its message
\* ("must be less than 20 characters") says
_validateModuleName_lessThan20(moduleName) ==
  /\ Len(moduleName) < MaxModuleNameLength
  /\ moduleName # <<>>
  /\ moduleName[1] \in LowerLetters
  /\ \A i \in 2..Len(moduleName) :
       moduleName[i] \in LowerLetters \cup UpperLetters \cup {"_"}

\* TRUE when the name passes, FALSE when the validation throws
_validateModuleName(moduleName) ==
  /\ Len(moduleName) <= MaxModuleNameLength
  /\ moduleName # <<>>
  /\ moduleName[1] \in LowerLetters
  /\ \A i \in 2..Len(moduleName) :
       moduleName[i] \in LowerLetters \cup UpperLetters \cup {"_"}

(***************************************************************************)
(* The Module Generator: moduleHelper and Generate._generateModule.        *)
(* File names are compared as the file system of the project stores them,  *)
(* character by character.                                                 *)
(***************************************************************************)
controller == <<"c", "o", "n", "t", "r", "o", "l", "l", "e", "r">>
route == <<"r", "o", "u", "t", "e">>
service == <<"s", "e", "r", "v", "i", "c", "e">>
model == <<"m", "o", "d", "e", "l">>

\* `${type}s`
typeDir(type) == Str(type) \o "s"
\* `${name}${type.charAt(0).toUpperCase() + type.slice(1)}.js`
typeFile(name, type) == Str(name) \o Str(capitalize(type)) \o ".js"

\* TRUE when the module is not found, FALSE when the function throws
_validateModuleNotExists(f, structure, moduleName, skipModel) ==
  LET moduleNameCapitalized == capitalize(moduleName)
      fileTypes == IF skipModel THEN <<controller, route, service>>
                   ELSE <<controller, route, service, model>>
      files == [i \in 1..Len(fileTypes) |->
                  <<"src", typeDir(fileTypes[i]),
                    typeFile(moduleNameCapitalized, fileTypes[i])>>]
  IN  IF structure = "modular"
      THEN ~existsSync(f, <<"src", "modules", Str(moduleName)>>)
      ELSE \A i \in 1..Len(files) : ~existsSync(f, files[i])

_fetchModuleTemplate(typeName, orm) ==
  IF typeName = model
  THEN IF orm = "sequelize" THEN "module/models/sequelize.model.js"
       ELSE IF orm = "typeorm" THEN "module/models/typeorm.model.js"
       ELSE "module/model.js"
  ELSE "module/" \o Str(typeName) \o ".js"

\* [ok, crudData]: the three fragments, rendered in the order of the code
_fetchCrudData(moduleName, modelAttributes) ==
  LET data == ("moduleName" :> moduleName)
                @@ ("modelAttributes" :> modelAttributes)
      crudMethods == _renderTemplate(Templates["module/cruds/crud.methods.js"], data)
      crudRoutes == _renderTemplate(Templates["module/cruds/crud.routes.js"], data)
      crudServices == _renderTemplate(Templates["module/cruds/crud.services.js"], data)
  IN  IF crudMethods.ok /\ crudRoutes.ok /\ crudServices.ok
      THEN [ok |-> TRUE,
            crudData |-> [crudMethods |-> crudMethods.text,
                          crudRoutes |-> crudRoutes.text,
                          crudServices |-> crudServices.text]]
      ELSE [ok |-> FALSE,
            crudData |-> [crudMethods |-> <<>>, crudRoutes |-> <<>>,
                          crudServices |-> <<>>]]

moduleTemplateData(name, modelImport, crudData, modelAttributes, moduleName) ==
  ("moduleName" :> name)
    @@ ("controllerImport" :>
          <<"const ">> \o moduleName \o <<"Controller = require(../controllers/">>
            \o moduleName \o <<"Controller.js);">>)
    @@ ("serviceImport" :>
          <<"const ">> \o moduleName \o <<"Service = require(../services/">>
            \o moduleName \o <<"Service.js);">>)
    @@ ("modelImport" :> <<modelImport>>)
    @@ ("crudRoutes" :> crudData.crudRoutes)
    @@ ("crudMethods" :> crudData.crudMethods)
    @@ ("crudServices" :> crudData.crudServices)
    @@ ("modelAttributes" :> modelAttributes)

\* [ok, dirs, files]
_getModuleConfig(structure, moduleName, orm, crud, skipModel, modelAttributes) ==
  LET moduleFiles == IF skipModel THEN <<controller, route, service>>
                     ELSE <<controller, route, service, model>>
      fetched == IF crud THEN _fetchCrudData(moduleName, modelAttributes)
                 ELSE [ok |-> TRUE,
                       crudData |-> [crudMethods |-> <<>>, crudRoutes |-> <<>>,
                                     crudServices |-> <<>>]]
      crudData == fetched.crudData
      m == Str(moduleName)
      item(path, data, type) ==
        [type |-> "file", name |-> path, content |-> <<>>,
         template |-> _fetchModuleTemplate(type, orm),
         hasTemplateData |-> TRUE, templateData |-> data, force |-> FALSE]
      dirs(names) ==
        <<[type |-> "dir", name |-> names, content |-> <<>>, template |-> "",
           hasTemplateData |-> FALSE, templateData |-> <<>>, force |-> FALSE]>>
  IN  IF ~fetched.ok THEN [ok |-> FALSE, dirs |-> <<>>, files |-> <<>>]
      ELSE IF structure = "modular"
      THEN [ok |-> TRUE,
            dirs |-> dirs(<< <<"src", "modules", m>>,
                             <<"src", "modules", m, "controllers">>,
                             <<"src", "modules", m, "routes">>,
                             <<"src", "modules", m, "services">>,
                             <<"src", "modules", m, "models">>,
                             <<"src", "modules", m, "dto">> >>),
            files |-> [i \in 1..Len(moduleFiles) |->
                         item(<<"src", "modules", m, typeDir(moduleFiles[i]),
                                typeFile(moduleName, moduleFiles[i])>>,
                              moduleTemplateData(
                                capitalize(moduleName),
                                "const db = require(../../../common/models/index.js);",
                                crudData, modelAttributes, moduleName),
                              moduleFiles[i])]]
      ELSE [ok |-> TRUE,
            dirs |-> dirs(<< <<"src", "controllers">>, <<"src", "routes">>,
                             <<"src", "services">>, <<"src", "models">> >>),
            files |-> [i \in 1..Len(moduleFiles) |->
                         item(<<"src", typeDir(moduleFiles[i]),
                                typeFile(moduleName, moduleFiles[i])>>,
                              moduleTemplateData(
                                moduleName,
                                "const db = require(../models/index.js);",
                                crudData, modelAttributes, moduleName),
                              moduleFiles[i])]]

(***************************************************************************)
(* Migrations.  `npx sequelize-cli migration:generate --name create-<m>`   *)
(* is an external command: when it succeeds it adds a skeleton file        *)
(* <stamp>-create-<m>.js, later stamps sorting after earlier ones.         *)
(***************************************************************************)
MaxMigrations == 2
MaxRegistrations == 2

ModuleNames ==
  { <<"u", "s", "e", "r">>, <<"U", "s", "e", "r">> }

DigitSeq == <<"0", "1", "2", "3", "4", "5", "6", "7", "8", "9">>
Stamp(n) == "2026010100000" \o DigitSeq[n + 1]
MigrationName(n, moduleName) ==
  Stamp(n) \o "-create-" \o Str(moduleName) \o ".js"
MigrationSkeleton == <<"module.exports = { async up () {}, async down () {} };">>

migrationsPath(structure) ==
  IF structure = "layered" THEN <<"src", "migrations">>
  ELSE <<"src", "common", "migrations">>

\* fs.readdirSync(migrationsPath), as the <<stamp, module>> pairs of the names
migrationFilesIn(f, structure) ==
  { nm \in (1..9) \X ModuleNames :
      IsFile(f, migrationsPath(structure) \o <<MigrationName(nm[1], nm[2])>>) }

\* the command, when it exits with status 0
migrationGenerate(f, structure, moduleName) ==
  LET made == mkdirSync(f, migrationsPath(structure))
      n == Cardinality(migrationFilesIn(f, structure)) + 1
  IN  writeFileSync(made.fs,
                    migrationsPath(structure) \o <<MigrationName(n, moduleName)>>,
                    MigrationSkeleton).fs

_generateMigrationContent(moduleName, modelAttributes) ==
  LET column(attr) ==
        attr.name \o <<": { type: Sequelize.", attr.type, ", allowNull: true }">>
      attributesString ==
        join([i \in 1..Len(modelAttributes) |-> column(modelAttributes[i])],
             "," \o NL)
  IN  <<"'use strict'; module.exports = { async up(queryInterface, Sequelize) {",
        "await queryInterface.createTable('">> \o moduleName
        \o <<"', { id: { allowNull: false, autoIncrement: true, primaryKey: true, type: Sequelize.INTEGER },", NL>>
        \o attributesString
        \o <<",", NL, "createdAt: { allowNull: false, type: Sequelize.DATE },",
             "updatedAt: { allowNull: false, type: Sequelize.DATE } }); },",
             "async down(queryInterface, Sequelize) { await queryInterface.dropTable('">>
        \o moduleName \o <<"'); } };">>

\* file.includes(`create-${moduleName}`) for the file <stamp>-create-<m>.js
includesCreate(m, moduleName) ==
  IsPrefix(moduleName, m \o <<".", "j", "s">>)

_populateMigrationFile(f, structure, moduleName, modelAttributes) ==
  IF ~existsSync(f, migrationsPath(structure)) THEN f
  ELSE
    LET migrationFiles == { nm \in migrationFilesIn(f, structure) :
                              includesCreate(nm[2], moduleName) }
    IN  IF migrationFiles = {} THEN f
        ELSE
          LET latest == Max({nm[1] : nm \in migrationFiles})
              first == CHOOSE nm \in migrationFiles :
                         /\ nm[1] = latest
                         /\ \A other \in migrationFiles :
                              other[1] = latest =>
                                Len(other[2]) <= Len(nm[2])
          IN  writeFileSync(
                f,
                migrationsPath(structure) \o <<MigrationName(first[1], first[2])>>,
                _generateMigrationContent(moduleName, modelAttributes)).fs

(***************************************************************************)
(* Generate._generateModule.                                               *)
(***************************************************************************)
modelsIndexPath(structure) ==
  IF structure = "layered" THEN <<"src", "models", "index.js">>
  ELSE <<"src", "common", "models", "index.js">>
routeIndexPath(structure) ==
  IF structure = "layered" THEN <<"src", "routes", "index.js">>
  ELSE <<"src", "common", "routes", "index.js">>
routeFilePath(structure, moduleName) ==
  IF structure = "layered"
  THEN "../routes/" \o Str(moduleName) \o "Route.js"
  ELSE "../modules/" \o Str(moduleName) \o "/routes/" \o Str(moduleName)
         \o "Route.js"
routeRegistration(structure, moduleName) ==
  <<"router.use(\"/" \o Str(moduleName) \o "\", require(\""
      \o routeFilePath(structure, moduleName) \o "\"));">>

\* the attributes the generation goes on with, errors swallowed
parsedAttributes_ignoreErrors(f, structure, orm, options) ==
  [ok |-> TRUE, attributes |-> <<>>]

\* [ok, attributes]: the attributes the generation goes on with
parsedAttributes(f, structure, orm, options) ==
  IF options.modelAttributes = <<>> THEN [ok |-> TRUE, attributes |-> <<>>]
  ELSE IF orm # "sequelize" THEN [ok |-> TRUE, attributes |-> <<>>]
  ELSE IF ~existsSync(f, modelsIndexPath(structure))
  THEN [ok |-> TRUE, attributes |-> <<>>]
  ELSE _parseModelAttributes(options.modelAttributes)

\* the part of _generateModule after the module files are in place
registerAndMigrate(f, structure, orm, moduleName, options, modelAttributes, cliOk) ==
  LET patched ==
        IF existsSync(f, routeIndexPath(structure))
        THEN _appendContent(f, routeIndexPath(structure),
                            [content |-> routeRegistration(structure, moduleName),
                             appendAt |-> "before",
                             appendLine |-> <<"module.exports">>])
        ELSE [fs |-> f, outcome |-> "ok"]
  IN  IF patched.outcome = "throw"
      THEN [fs |-> patched.fs, outcome |-> "exit", error |-> "patch"]
      ELSE IF orm \in {"sequelize", "typeorm"} /\ options.model
      THEN IF ~cliOk
           THEN [fs |-> patched.fs, outcome |-> "exit", error |-> "command"]
           ELSE
             LET generated == migrationGenerate(patched.fs, structure, moduleName)
             IN  [fs |-> IF modelAttributes # <<>>
                         THEN _populateMigrationFile(generated, structure,
                                                     moduleName, modelAttributes)
                         ELSE generated,
                  outcome |-> "ok", error |-> ""]
      ELSE [fs |-> patched.fs, outcome |-> "ok", error |-> ""]

\* [fs, outcome, error]: outcome "exit" is process.exit(1) after the error
_generateModule(f, structure, orm, moduleName, options, cliOk) ==
  IF ~_validateModuleName(moduleName)
  THEN [fs |-> f, outcome |-> "exit", error |-> "name"]
  ELSE
    LET parsed == parsedAttributes(f, structure, orm, options)
        modelAttributes == parsed.attributes
    IN  IF ~parsed.ok
        THEN [fs |-> f, outcome |-> "exit", error |-> "attributes"]
        ELSE IF ~_validateModuleNotExists(f, structure, moduleName, ~options.model)
        THEN [fs |-> f, outcome |-> "exit", error |-> "exists"]
        ELSE
          LET moduleConfig == _getModuleConfig(structure, moduleName, orm,
                                               options.crud, ~options.model,
                                               modelAttributes)
          IN  IF ~moduleConfig.ok
              THEN [fs |-> f, outcome |-> "exit", error |-> "render"]
              ELSE
                LET added == _addDirsAndFiles(f, moduleConfig.dirs \o moduleConfig.files)
                IN  IF added.outcome = "exit"
                    THEN [fs |-> added.fs, outcome |-> "exit", error |-> "files"]
                    ELSE registerAndMigrate(added.fs, structure, orm, moduleName,
                                            options, modelAttributes, cliOk)

(***************************************************************************)
(* SpecGen: gen:module commands run one after another in a project.        *)
(* hist holds the last command only (its module name, its attribute        *)
(* string and how it ended); fsPre is the tree it started from.            *)
(***************************************************************************)
User == <<"u", "s", "e", "r">>

RouteIndexTemplate ==
  << "const router = express.Router();", NL,
     "router.get('/', (req, res) => { res.json({ message: 'API is running' }); });",
     NL, NL, "module.exports", " = router;" >>

Mk(f, p) == mkdirSync(f, p).fs
Wr(f, p, c) == writeFileSync(f, p, c).fs

\* a new project: the route index in place, no database set up
FreshProject(structure) ==
  Wr(Mk(EmptyTree, Parent(routeIndexPath(structure))),
     routeIndexPath(structure), RouteIndexTemplate)

\* after gen:db: models/index.js and the migrations directory in place
DbProject(structure) ==
  Wr(Mk(Mk(FreshProject(structure), Parent(modelsIndexPath(structure))),
        migrationsPath(structure)),
     modelsIndexPath(structure), <<"models index">>)

\* the files of module user in a layered project, as generated earlier
LayeredUserFiles(f, types) ==
  [p \in DOMAIN f \cup {<<"src", typeDir(t)>> : t \in types}
           \cup {<<"src", typeDir(t), typeFile(User, t)>> : t \in types} |->
     IF p \in DOMAIN f THEN f[p]
     ELSE IF Len(p) = 2 THEN DirNode ELSE OldFile]

Registered(f, structure, moduleName) ==
  _appendContent(f, routeIndexPath(structure),
                 [content |-> routeRegistration(structure, moduleName),
                  appendAt |-> "before",
                  appendLine |-> <<"module.exports">>]).fs

GenTrees(structure) ==
  IF structure = "layered"
  THEN { Mk(EmptyTree, <<"src">>),
         FreshProject(structure),
         DbProject(structure),
         LayeredUserFiles(FreshProject(structure), {service}),
         LayeredUserFiles(DbProject(structure), {controller, route, service}),
         Registered(LayeredUserFiles(FreshProject(structure),
                                     {controller, route, service}),
                    structure, User),
         Registered(LayeredUserFiles(DbProject(structure),
                                     {controller, route, service, model}),
                    structure, User) }
  ELSE { Mk(EmptyTree, <<"src">>),
         FreshProject(structure),
         DbProject(structure),
         Mk(FreshProject(structure), <<"src", "modules", "user">>),
         Registered(Mk(DbProject(structure),
                       <<"src", "modules", "user", "controllers">>),
                    structure, User) }

\* the structure and the ORM of the project metadata; gen:db sets up
\* Sequelize only
Projects == [structure : {"layered", "modular"}, orm : {"", "sequelize"}]

\* --model-attributes values: none, a well-formed one, one that names a
\* column createdAt, and one malformed string of each kind
AttributeText ==
  ("none" :> <<>>)
    @@ ("a:string,b:bool" :> <<"a", ":", "s", "t", "r", "i", "n", "g", ",",
                               "b", ":", "b", "o", "o", "l">>)
    @@ ("createdAt:string" :> <<"c", "r", "e", "a", "t", "e", "d", "A", "t", ":",
                                "s", "t", "r", "i", "n", "g">>)
    @@ ("bad segment" :> <<"a">>)
    @@ ("bad column name" :> <<"1", "a", ":", "d", "a", "t", "e">>)
    @@ ("bad type" :> <<"a", ":", "t", "e", "x", "t">>)
    @@ ("too many segments" :> [i \in 1..MAX_ATTRIBUTES |-> ","])
    @@ ("too long" :> [i \in 1..(MAX_INPUT_LENGTH + 1) |-> "a"])
MalformedAttributes ==
  {"bad segment", "bad column name", "bad type", "too many segments", "too long"}

\* module names at the length limit, over it, and with a digit
LimitNames ==
  { [i \in 1..MaxModuleNameLength |-> "m"],
    [i \in 1..(MaxModuleNameLength + 1) |-> "m"],
    <<"u", "s", "e", "r", "1">> }

Registrations(f, structure) ==
  IF ~IsFile(f, routeIndexPath(structure)) THEN 0
  ELSE LET text == f[routeIndexPath(structure)].content
       IN  Cardinality({i \in 1..Len(text) :
                          \E m \in ModuleNames \cup LimitNames :
                            <<text[i]>> = routeRegistration(structure, m)})

InitGen ==
  /\ project \in Projects
  /\ fs0 \in GenTrees(project.structure)
  /\ fs = fs0
  /\ fsPre = fs0
  /\ hist = <<>>
  /\ plan = <<>>

\* one gen:module command; attributes names the --model-attributes string.
\* A command with one of the LimitNames is the last one of a run.
GenModule(moduleName, crud, model_, attributes, cliOk) ==
  LET options == [crud |-> crud, model |-> model_,
                  modelAttributes |-> AttributeText[attributes]]
      r == _generateModule(fs, project.structure, project.orm, moduleName,
                           options, cliOk)
  IN  /\ Registrations(fs, project.structure) < MaxRegistrations
      /\ Cardinality(migrationFilesIn(fs, project.structure)) < MaxMigrations
      /\ hist # <<>> => Last.moduleName \notin LimitNames
      /\ fs' = r.fs
      /\ fsPre' = fs
      /\ hist' = <<[op |-> "genModule", moduleName |-> moduleName,
                    attributes |-> attributes,
                    outcome |-> r.outcome, error |-> r.error]>>
      /\ UNCHANGED <<fs0, plan, project>>

NextGen ==
  \/ \E moduleName \in ModuleNames, crud \in BOOLEAN, model_ \in BOOLEAN :
       \* with --crud: no string or the well-formed one; the malformed
       \* strings are given for a module with a model; the migration command
       \* is run for a module with a model only
       \E attributes \in IF crud THEN {"none", "a:string,b:bool"}
                          ELSE IF model_ THEN DOMAIN AttributeText
                          ELSE DOMAIN AttributeText \ MalformedAttributes,
          cliOk \in IF model_ THEN BOOLEAN ELSE {TRUE} :
         GenModule(moduleName, crud, model_, attributes, cliOk)
  \/ \E moduleName \in LimitNames :
       GenModule(moduleName, FALSE, FALSE, "none", TRUE)

SpecGen == InitGen /\ [][NextGen]_vars

(***************************************************************************)
(* Claims about gen:module (SpecGen).                                      *)
(***************************************************************************)
GenCalled == hist # <<>> /\ Last.op = "genModule"
MalformedGiven == GenCalled /\ Last.attributes \in MalformedAttributes
Aborted == Last.outcome = "exit" /\ fs = fsPre

AttributesParsed ==
  /\ project.orm = "sequelize"
  /\ existsSync(fsPre, modelsIndexPath(project.structure))

ModuleExists(f, structure, moduleName) ==
  IF structure = "modular"
  THEN existsSync(f, <<"src", "modules", Str(moduleName)>>)
  ELSE \E type \in {controller, route, service, model} :
         existsSync(f, <<"src", typeDir(type), typeFile(moduleName, type)>>)

\* C4: gen:module for a module that already exists in the project (its
\* module directory in the modular layout, one of its generated files in
\* the layered layout) fails and changes nothing on disk, the route index
\* included.
C4_ExistingModuleRejected ==
  (GenCalled /\ ModuleExists(fsPre, project.structure, Last.moduleName))
    => Aborted

\* ^[a-z][a-zA-Z_]*$
NamePattern(name) ==
  /\ Len(name) >= 1
  /\ name[1] \in LowerLetters
  /\ \A i \in 2..Len(name) : name[i] \in LowerLetters \cup UpperLetters \cup {"_"}

RegistrationsOf(f, structure, moduleName) ==
  IF ~IsFile(f, routeIndexPath(structure)) THEN {}
  ELSE {i \in 1..Len(f[routeIndexPath(structure)].content) :
          <<f[routeIndexPath(structure)].content[i]>>
            = routeRegistration(structure, moduleName)}

\* C30: after any sequence of gen:module commands in one project, the route
\* index holds at most one router.use registration line for each module
\* name.
C30_OneRegistrationPerModule ==
  \A m \in ModuleNames \cup LimitNames :
    Cardinality(RegistrationsOf(fs0, project.structure, m)) <= 1
      => Cardinality(RegistrationsOf(fs, project.structure, m)) <= 1

(***************************************************************************)
(* Specification SpecParse: one call of _parseModelAttributes on one       *)
(* attribute string.  The string is carried in plan, the call in hist.     *)
(***************************************************************************)
MaxSegments == 3

\* the segments the attribute strings are put together from:
\* a:string  b:bool  b:boolean  a:date  i:integer  f:float  " n : Number "
\* ""  " "  a  :date
\* a:  a:text  1a:date  a:string:x  a:constructor  p:ref(users)
\* s:enum(x|y)  s:enum(x|x)
Segments ==
  { <<"a", ":", "s", "t", "r", "i", "n", "g">>,
    <<"b", ":", "b", "o", "o", "l">>,
    <<"b", ":", "b", "o", "o", "l", "e", "a", "n">>,
    <<"a", ":", "d", "a", "t", "e">>,
    <<"i", ":", "i", "n", "t", "e", "g", "e", "r">>,
    <<"f", ":", "f", "l", "o", "a", "t">>,
    <<" ", "n", " ", ":", " ", "N", "u", "m", "b", "e", "r", " ">>,
    <<>>,
    <<" ">>,
    <<"a">>,
    <<":", "d", "a", "t", "e">>,
    <<"a", ":">>,
    <<"a", ":", "t", "e", "x", "t">>,
    <<"1", "a", ":", "d", "a", "t", "e">>,
    <<"a", ":", "s", "t", "r", "i", "n", "g", ":", "x">>,
    <<"a", ":", "c", "o", "n", "s", "t", "r", "u", "c", "t", "o", "r">>,
    <<"p", ":", "r", "e", "f", "(", "u", "s", "e", "r", "s", ")">>,
    <<"s", ":", "e", "n", "u", "m", "(", "x", "|", "y", ")">>,
    <<"s", ":", "e", "n", "u", "m", "(", "x", "|", "x", ")">> }

\* n times the same segment, comma-separated
Repeat(segment, n) == join([i \in 1..n |-> segment], ",")
\* a name of n letters with the type string
LongName(n) == [i \in 1..n |-> "a"] \o <<":", "s", "t", "r", "i", "n", "g">>

\* strings at the two size limits of the parser
LimitInputs ==
  { Repeat(<<"a", ":", "s", "t", "r", "i", "n", "g">>, MAX_ATTRIBUTES),
    Repeat(<<"a", ":", "s", "t", "r", "i", "n", "g">>, MAX_ATTRIBUTES + 1),
    Repeat(<<>>, MAX_ATTRIBUTES),
    Repeat(<<>>, MAX_ATTRIBUTES + 1),
    Repeat(<<"a", ":", "t", "e", "x", "t">>, MAX_ATTRIBUTES + 1),
    LongName(MAX_INPUT_LENGTH - 7),
    LongName(MAX_INPUT_LENGTH - 6),
    [i \in 1..MAX_INPUT_LENGTH |-> " "],
    [i \in 1..(MAX_INPUT_LENGTH + 1) |-> " "],
    [i \in 1..(MAX_INPUT_LENGTH + 1) |-> ","] }

AttributeStrings ==
  {join(ss, ",") : ss \in UNION {[1..n -> Segments] : n \in 0..MaxSegments}}
    \cup LimitInputs

InitParse ==
  /\ plan \in AttributeStrings
  /\ hist = <<>>
  /\ fs = EmptyTree
  /\ fsPre = EmptyTree
  /\ fs0 = EmptyTree
  /\ project = NoProject

ParseModelAttributes ==
  /\ hist = <<>>
  /\ hist' = <<[op |-> "parse", result |-> _parseModelAttributes(plan)]>>
  /\ UNCHANGED <<fs, fsPre, fs0, plan, project>>

NextParse == ParseModelAttributes

SpecParse == InitParse /\ [][NextParse]_vars

(***************************************************************************)
(* Claims about the Attribute Parser (SpecParse).                          *)
(***************************************************************************)
ParseCalled == hist # <<>> /\ Last.op = "parse"
\* the top-level segments of the input, and those that are not blank
SegmentsOf(text) == split(text, ",")
NonBlank(segments) == SelectSeq(segments, LAMBDA g : trim(g) # <<>>)
\* a segment cut at its first colon
HasColon(g) == \E i \in 1..Len(g) : g[i] = ":"
FirstColon(g) == CHOOSE i \in 1..Len(g) : g[i] = ":" /\ \A j \in 1..(i - 1) : g[j] # ":"
NameOf(g) == trim(SubSeq(g, 1, FirstColon(g) - 1))
TypeSpecOf(g) == toLowerCase(trim(SubSeq(g, FirstColon(g) + 1, Len(g))))
Colons(g) == Cardinality({i \in 1..Len(g) : g[i] = ":"})

\* the input is within the two size limits
WithinLimits(text) ==
  Len(text) <= MAX_INPUT_LENGTH /\ Len(SegmentsOf(text)) <= MAX_ATTRIBUTES
\* the type keywords of the grammar
TypeKeywords == DOMAIN _dataTypeMapping
\* typeSpec of the form word(...) for the word given
IsForm(typeSpec, word) ==
  /\ Len(typeSpec) >= Len(word) + 2
  /\ SubSeq(typeSpec, 1, Len(word) + 1) = word \o <<"(">>
  /\ typeSpec[Len(typeSpec)] = ")"
FormArgument(typeSpec, word) ==
  SubSeq(typeSpec, Len(word) + 2, Len(typeSpec) - 1)
ref == <<"r", "e", "f">>
enum == <<"e", "n", "u", "m">>
\* a segment name:keyword with a well-formed name
WellFormed(g) ==
  /\ Colons(g) = 1
  /\ columnNameFormat(NameOf(g))
  /\ TypeSpecOf(g) \in TypeKeywords

\* C13: a segment is cut at its first colon only, the typeSpec being all the
\* text after it; a segment with a second colon (a:string:x, typeSpec
\* string:x) is therefore never accepted.
C13_SplitAtFirstColon ==
  (/\ ParseCalled
   /\ \E k \in 1..Len(NonBlank(SegmentsOf(plan))) :
        Colons(NonBlank(SegmentsOf(plan))[k]) >= 2)
    => ~Last.result.ok

\* C14: a segment whose typeSpec, trimmed and lowercased, is none of the
\* seven type keywords (and no ref(...) or enum(...) form) makes the parse
\* fail, with an error that names the supported types when that segment is
\* the first one in error; no such segment yields a descriptor.
C14_UnsupportedTypeFails ==
  ParseCalled
    => LET segs == NonBlank(SegmentsOf(plan))
           unsupported(g) ==
             /\ Colons(g) = 1
             /\ TypeSpecOf(g) \notin TypeKeywords
             /\ ~IsForm(TypeSpecOf(g), ref)
             /\ ~IsForm(TypeSpecOf(g), enum)
       IN  \A k \in 1..Len(segs) :
             unsupported(segs[k])
               => /\ ~Last.result.ok
                  /\ (/\ WithinLimits(plan)
                      /\ TypeSpecOf(segs[k]) # <<>>
                      /\ NameOf(segs[k]) # <<>>
                      /\ \A j \in 1..(k - 1) : WellFormed(segs[j]))
                       => /\ Last.result.error.message = "Unsupported data type"
                          /\ Last.result.error.supportedTypes = supportedTypes

\* C15: a segment name:ref(<identifier>) is accepted and gives a descriptor of
\* kind reference whose referenceTarget is the identifier and whose delete
\* and update policies are CASCADE.
C15_ReferenceAccepted ==
  ParseCalled
    => LET segs == NonBlank(SegmentsOf(plan))
           isRef(g) ==
             /\ Colons(g) = 1
             /\ columnNameFormat(NameOf(g))
             /\ IsForm(TypeSpecOf(g), ref)
             /\ columnNameFormat(FormArgument(TypeSpecOf(g), ref))
       IN  (/\ WithinLimits(plan)
            /\ \A k \in 1..Len(segs) : WellFormed(segs[k]) \/ isRef(segs[k]))
             => /\ Last.result.ok
                /\ Len(Last.result.attributes) = Len(segs)
                /\ \A k \in 1..Len(segs) :
                     isRef(segs[k])
                       => LET d == Last.result.attributes[k]
                          IN  /\ d.name = NameOf(segs[k])
                              /\ d.type = "reference"
                              /\ {"referenceTarget", "onDelete", "onUpdate"}
                                   \subseteq DOMAIN d
                              /\ d.referenceTarget
                                   = FormArgument(TypeSpecOf(segs[k]), ref)
                              /\ d.onDelete = "CASCADE"
                              /\ d.onUpdate = "CASCADE"

\* the values of an enum argument v1|v2|...|vk
EnumValues(typeSpec) == split(FormArgument(typeSpec, enum), "|")
MaxEnumValues == 10
ValidEnum(values) ==
  /\ Len(values) <= MaxEnumValues
  /\ \A i \in 1..Len(values) : values[i] # <<>>
  /\ \A i, j \in 1..Len(values) : values[i] = values[j] => i = j

\* C16: a segment name:enum(v1|...|vk) is accepted exactly when it has at
\* most 10 values, all non-empty and pairwise distinct, and then gives one
\* descriptor of kind enum whose enumValues are v1..vk in the order written;
\* otherwise the parse fails.
C16_EnumAccepted ==
  ParseCalled
    => LET segs == NonBlank(SegmentsOf(plan))
           isEnum(g) ==
             /\ Colons(g) = 1
             /\ columnNameFormat(NameOf(g))
             /\ IsForm(TypeSpecOf(g), enum)
       IN  (/\ WithinLimits(plan)
            /\ \A k \in 1..Len(segs) : WellFormed(segs[k]) \/ isEnum(segs[k]))
             => /\ Last.result.ok
                  <=> \A k \in 1..Len(segs) :
                        isEnum(segs[k]) => ValidEnum(EnumValues(TypeSpecOf(segs[k])))
                /\ Last.result.ok
                     => /\ Len(Last.result.attributes) = Len(segs)
                        /\ \A k \in 1..Len(segs) :
                             isEnum(segs[k])
                               => LET d == Last.result.attributes[k]
                                  IN  /\ d.name = NameOf(segs[k])
                                      /\ d.type = "enum"
                                      /\ "enumValues" \in DOMAIN d
                                      /\ d.enumValues
                                           = EnumValues(TypeSpecOf(segs[k]))

\* an attribute string of well-formed segments within the size limits
ValidAttributeString(text) ==
  /\ WithinLimits(text)
  /\ \A k \in 1..Len(NonBlank(SegmentsOf(text))) :
       WellFormed(NonBlank(SegmentsOf(text))[k])
\* the type keywords a descriptor type can have come from
KeywordsOf(type) == {k \in TypeKeywords : _dataTypeMapping[k] = type}
bool == <<"b", "o", "o", "l">>
boolean == <<"b", "o", "o", "l", "e", "a", "n">>

\* C17: for a valid attribute string each descriptor gives back the pairing
\* written: its name is the segment's name and the type keyword written
\* (lowercased) is the one keyword its type stands for.
C17_KeywordRecoverable ==
  (ParseCalled /\ ValidAttributeString(plan))
    => LET segs == NonBlank(SegmentsOf(plan))
       IN  /\ Last.result.ok
           /\ Len(Last.result.attributes) = Len(segs)
           /\ \A k \in 1..Len(segs) :
                /\ Last.result.attributes[k].name = NameOf(segs[k])
                /\ KeywordsOf(Last.result.attributes[k].type)
                     = {TypeSpecOf(segs[k])}

\* C17 as the code has it: the descriptor carries the name written and the
\* Sequelize type the keyword maps to; the keyword is the only one with that
\* type unless it is bool or boolean, which give the same type.
C17_TypeOfKeyword ==
  (ParseCalled /\ ValidAttributeString(plan))
    => LET segs == NonBlank(SegmentsOf(plan))
       IN  /\ Last.result.ok
           /\ Len(Last.result.attributes) = Len(segs)
           /\ \A k \in 1..Len(segs) :
                LET d == Last.result.attributes[k]
                    keyword == TypeSpecOf(segs[k])
                IN  /\ d.name = NameOf(segs[k])
                    /\ d.type = _dataTypeMapping[keyword]
                    /\ KeywordsOf(d.type)
                         = IF keyword \in {bool, boolean} THEN {bool, boolean}
                           ELSE {keyword}

\* C17 witness: b:bool and b:boolean were parsed in one string and gave the
\* same descriptor
C17_Witness ==
  /\ ParseCalled
  /\ ValidAttributeString(plan)
  /\ Len(NonBlank(SegmentsOf(plan))) = 2
  /\ TypeSpecOf(NonBlank(SegmentsOf(plan))[1]) = bool
  /\ TypeSpecOf(NonBlank(SegmentsOf(plan))[2]) = boolean
  /\ Last.result.ok
  /\ Last.result.attributes[1] = Last.result.attributes[2]

\* C18: an attribute string of at most 2000 characters and at most 30
\* comma-separated fields, every non-empty one well-formed, is parsed into
\* one descriptor per non-empty segment, in the order of the segments; empty
\* segments are skipped.
C18_OneDescriptorPerSegment ==
  (/\ ParseCalled
   /\ Len(plan) <= MAX_INPUT_LENGTH
   /\ Len(SegmentsOf(plan)) <= MAX_ATTRIBUTES
   /\ \A k \in 1..Len(SegmentsOf(plan)) :
        trim(SegmentsOf(plan)[k]) = <<>> \/ WellFormed(SegmentsOf(plan)[k]))
    => /\ Last.result.ok
       /\ Last.result.attributes
            = [k \in 1..Len(NonBlank(SegmentsOf(plan))) |->
                 [name |-> NameOf(NonBlank(SegmentsOf(plan))[k]),
                  type |-> _dataTypeMapping[
                             TypeSpecOf(NonBlank(SegmentsOf(plan))[k])]]]

\* C18 witness: an empty segment stood between two well-formed ones and two
\* descriptors were returned
C18_Witness ==
  /\ ParseCalled
  /\ Len(SegmentsOf(plan)) = 3
  /\ WellFormed(SegmentsOf(plan)[1])
  /\ SegmentsOf(plan)[2] = <<>>
  /\ WellFormed(SegmentsOf(plan)[3])
  /\ NameOf(SegmentsOf(plan)[1]) # NameOf(SegmentsOf(plan)[3])
  /\ Last.result.ok
  /\ Len(Last.result.attributes) = 2

\* C19: every input longer than 2000 characters fails, with the size error
\* and so before any field is looked at, whatever it contains; every input
\* with more than 30 segments fails; no list returned has more than 30
\* entries.
C19_SizeLimits ==
  ParseCalled
    => /\ Len(plan) > MAX_INPUT_LENGTH
            => ~Last.result.ok /\ Last.result.error = InputTooLarge
       /\ Len(SegmentsOf(plan)) > MAX_ATTRIBUTES => ~Last.result.ok
       /\ Last.result.ok => Len(Last.result.attributes) <= MAX_ATTRIBUTES

\* C20: the names of the descriptors of one result are pairwise distinct.
C20_NamesUnique ==
  (ParseCalled /\ Last.result.ok)
    => \A i, j \in 1..Len(Last.result.attributes) :
         Last.result.attributes[i].name = Last.result.attributes[j].name
           => i = j

\* the type mapping the README states:
\* number->BIGINT, integer->INTEGER, string->STRING, bool/boolean->BOOLEAN,
\* float->FLOAT, date->DATE
TypeMapping ==
  { <<<<"n", "u", "m", "b", "e", "r">>, "BIGINT">>,
    <<<<"i", "n", "t", "e", "g", "e", "r">>, "INTEGER">>,
    <<<<"s", "t", "r", "i", "n", "g">>, "STRING">>,
    <<<<"b", "o", "o", "l">>, "BOOLEAN">>,
    <<<<"b", "o", "o", "l", "e", "a", "n">>, "BOOLEAN">>,
    <<<<"f", "l", "o", "a", "t">>, "FLOAT">>,
    <<<<"d", "a", "t", "e">>, "DATE">> }
\* the type keyword as written, blanks removed, case kept
WrittenKeyword(g) == trim(SubSeq(g, FirstColon(g) + 1, Len(g)))

\* C21: the storage type of an accepted segment is fixed by its type
\* keyword alone, whatever its case: string gives STRING, number BIGINT,
\* integer INTEGER, bool and boolean BOOLEAN, float FLOAT, date DATE; the
\* descriptor's name is the trimmed name and matches ^[a-zA-Z_][a-zA-Z0-9_]*$.
C21_StorageTypeOfKeyword ==
  (ParseCalled /\ WithinLimits(plan))
    => LET segs == NonBlank(SegmentsOf(plan))
       IN  /\ Last.result.ok
             => /\ Len(Last.result.attributes) = Len(segs)
                /\ \A k \in 1..Len(segs) :
                     LET d == Last.result.attributes[k]
                     IN  /\ d.name = NameOf(segs[k])
                         /\ columnNameFormat(d.name)
                         /\ \A m \in TypeMapping :
                              TypeSpecOf(segs[k]) = m[1] => d.type = m[2]
           /\ (\A k \in 1..Len(segs) :
                 /\ Colons(segs[k]) = 1
                 /\ columnNameFormat(NameOf(segs[k]))
                 /\ \E m \in TypeMapping : TypeSpecOf(segs[k]) = m[1])
                => Last.result.ok

\* C21 witness: a keyword written with an upper-case letter and blanks
\* around it was accepted
C21_Witness ==
  /\ ParseCalled
  /\ Last.result.ok
  /\ \E k \in 1..Len(NonBlank(SegmentsOf(plan))) :
       LET g == NonBlank(SegmentsOf(plan))[k]
       IN  /\ WrittenKeyword(g) # TypeSpecOf(g)
           /\ NameOf(g) # SubSeq(g, 1, FirstColon(g) - 1)
           /\ Last.result.attributes[k].type = "BIGINT"

(***************************************************************************)
(* Specification SpecMigration: one call of _generateMigrationContent.     *)
(* plan holds the module name and the attribute list, hist the content.    *)
(***************************************************************************)
MaxAttributes == 2

\* descriptors as the parser returns them
Descriptors ==
  [name : {<<"a">>, <<"i", "d">>, <<"c", "r", "e", "a", "t", "e", "d", "A", "t">>},
   type : {"STRING", "BIGINT", "DATE"}]
AttributeLists == UNION {[1..n -> Descriptors] : n \in 0..MaxAttributes}

InitMigration ==
  /\ plan \in [moduleName : ModuleNames, modelAttributes : AttributeLists]
  /\ hist = <<>>
  /\ fs = EmptyTree
  /\ fsPre = EmptyTree
  /\ fs0 = EmptyTree
  /\ project = NoProject

GenerateMigrationContent ==
  /\ hist = <<>>
  /\ hist' = <<[op |-> "migrationContent",
                content |-> _generateMigrationContent(plan.moduleName,
                                                      plan.modelAttributes)]>>
  /\ UNCHANGED <<fs, fsPre, fs0, plan, project>>

NextMigration == GenerateMigrationContent

SpecMigration == InitMigration /\ [][NextMigration]_vars

(***************************************************************************)
(* Claims about the migration content (SpecMigration).                     *)
(***************************************************************************)
MigrationCalled == hist # <<>> /\ Last.op = "migrationContent"
\* the places of the fixed parts of a migration text
CreateTableAt(text) ==
  {i \in 1..Len(text) : text[i] = "await queryInterface.createTable('"}
IdColumnAt(text) ==
  {i \in 1..Len(text) :
     text[i] = "', { id: { allowNull: false, autoIncrement: true, primaryKey: true, type: Sequelize.INTEGER },"}
CreatedAtAt(text) ==
  {i \in 1..Len(text) :
     text[i] = "createdAt: { allowNull: false, type: Sequelize.DATE },"}
UpdatedAtAt(text) ==
  {i \in 1..Len(text) :
     text[i] = "updatedAt: { allowNull: false, type: Sequelize.DATE } }); },"}
DropTableAt(text) ==
  {i \in 1..Len(text) :
     text[i] = "async down(queryInterface, Sequelize) { await queryInterface.dropTable('"}
\* the column entries written between the id column and createdAt
ColumnEntries(text) ==
  LET from == Max(IdColumnAt(text)) + 2
      to == Min(CreatedAtAt(text)) - 3
  IN  split(SubSeq(text, from, to), "," \o NL)
\* the entry of one attribute: its name, then its type
IsColumnOf(entry, attr) ==
  /\ Len(entry) = Len(attr.name) + 3
  /\ SubSeq(entry, 1, Len(attr.name)) = attr.name
  /\ entry[Len(attr.name) + 1] = ": { type: Sequelize."
  /\ entry[Len(attr.name) + 2] = attr.type

\* the columns the object literal handed to createTable defines, as JavaScript
\* evaluates it: a key written again keeps its first place and takes the
\* later value
RECURSIVE ObjectLiteral(_)
ObjectLiteral(entries) ==
  IF entries = <<>> THEN <<>>
  ELSE LET n == Len(entries)
           front == ObjectLiteral(SubSeq(entries, 1, n - 1))
           last == entries[n]
       IN  IF \E i \in 1..Len(front) : front[i].key = last.key
           THEN [i \in 1..Len(front) |->
                   IF front[i].key = last.key THEN last ELSE front[i]]
           ELSE Append(front, last)
PrimaryKey == "allowNull: false, autoIncrement: true, primaryKey: true, type: Sequelize.INTEGER"
Timestamp == "allowNull: false, type: Sequelize.DATE"
\* the entries of the literal in the order written: id, the column
\* entries, createdAt, updatedAt
WrittenEntries(text) ==
  LET columns == ColumnEntries(text)
  IN  <<[key |-> <<"i", "d">>, value |-> PrimaryKey]>>
        \o [k \in 1..Len(columns) |->
              [key |-> SubSeq(columns[k], 1, Len(columns[k]) - 3),
               value |-> columns[k][Len(columns[k]) - 1]]]
        \o <<[key |-> <<"c", "r", "e", "a", "t", "e", "d", "A", "t">>,
              value |-> Timestamp],
             [key |-> <<"u", "p", "d", "a", "t", "e", "d", "A", "t">>,
              value |-> Timestamp]>>

\* C23: for every module name and every non-empty attribute list the
\* migration content defines the auto-incrementing primary key id, then one
\* column per attribute in the order of the list, each with the attribute's
\* storage type, then the non-null columns createdAt and updatedAt; up
\* creates the table named after the module and down drops that table.
C23_MigrationColumns ==
  (MigrationCalled /\ plan.modelAttributes # <<>>)
    => LET text == Last.content
           attrs == plan.modelAttributes
       IN  /\ Cardinality(CreateTableAt(text)) = 1
           /\ Cardinality(IdColumnAt(text)) = 1
           /\ Cardinality(CreatedAtAt(text)) = 1
           /\ Cardinality(UpdatedAtAt(text)) = 1
           /\ Cardinality(DropTableAt(text)) = 1
           /\ LET create == Min(CreateTableAt(text))
                  id == Min(IdColumnAt(text))
                  created == Min(CreatedAtAt(text))
                  updated == Min(UpdatedAtAt(text))
                  drop == Min(DropTableAt(text))
              IN  /\ create < id /\ id < created
                  /\ updated = created + 1 /\ drop = updated + 1
                  /\ SubSeq(text, create + 1, id - 1) = plan.moduleName
                  /\ SubSeq(text, drop + 1, Len(text) - 1) = plan.moduleName
                  /\ text[id + 1] = NL
                  /\ SubSeq(text, created - 2, created - 1) = <<",", NL>>
           /\ Len(ColumnEntries(text)) = Len(attrs)
           /\ \A k \in 1..Len(attrs) : IsColumnOf(ColumnEntries(text)[k], attrs[k])
           /\ ObjectLiteral(WrittenEntries(text))
                = <<[key |-> <<"i", "d">>, value |-> PrimaryKey]>>
                    \o [k \in 1..Len(attrs) |->
                          [key |-> attrs[k].name, value |-> attrs[k].type]]
                    \o <<[key |-> <<"c", "r", "e", "a", "t", "e", "d", "A", "t">>,
                          value |-> Timestamp],
                         [key |-> <<"u", "p", "d", "a", "t", "e", "d", "A", "t">>,
                          value |-> Timestamp]>>

(***************************************************************************)
(* The generated model and the migration of a module (SpecGen).            *)
(***************************************************************************)
\* the model file gen:module generates for the module
modelFilePath(structure, moduleName) ==
  IF structure = "layered"
  THEN <<"src", typeDir(model), typeFile(moduleName, model)>>
  ELSE <<"src", "modules", Str(moduleName), typeDir(model),
         typeFile(moduleName, model)>>
\* the latest migration file of the module
LatestMigration(f, structure, moduleName) ==
  LET mine == {nm \in migrationFilesIn(f, structure) : nm[2] = moduleName}
      n == Max({nm[1] : nm \in mine})
  IN  migrationsPath(structure) \o <<MigrationName(n, moduleName)>>
\* the column entries a model definition lists, in the order written
ModelEntries(text) ==
  LET open == {i \in 1..Len(text) : text[i] = ".init({"}
      close == {i \in 1..Len(text) : text[i] = "}, { sequelize, modelName: "}
      entries == split(SubSeq(text, Min(open) + 1, Min(close) - 1), ",")
  IN  IF open = {} \/ close = {}
           \/ \A i \in 1..Len(text) : text[i] # ": { type: DataTypes."
      THEN <<>>
      ELSE [k \in 1..Len(entries) |->
              [key |-> SubSeq(entries[k], 1, Len(entries[k]) - 3),
               value |-> entries[k][Len(entries[k]) - 1]]]
\* the last command generated the model file from a non-empty attribute
\* list and ended successfully
ModelGenerated ==
  /\ GenCalled
  /\ Last.outcome = "ok"
  /\ AttributeText[Last.attributes] # <<>>
  /\ ~existsSync(fsPre, modelFilePath(project.structure, Last.moduleName))
  /\ IsFile(fs, modelFilePath(project.structure, Last.moduleName))
  /\ ModelEntries(fs[modelFilePath(project.structure, Last.moduleName)].content)
       # <<>>

\* C24: after a gen:module command that generated a model from a non-empty
\* attribute list and ended successfully, the model definition and the
\* module's migration file describe the same columns: the columns of the
\* migration that carry the names of the model's columns are the model's
\* columns, with the same storage types and in the same order.
C24_ModelMatchesMigration ==
  ModelGenerated
    => LET m == Last.moduleName
           st == project.structure
           columns == ObjectLiteral(ModelEntries(fs[modelFilePath(st, m)].content))
       IN  /\ \E nm \in migrationFilesIn(fs, st) : nm[2] = m
           /\ LET text == fs[LatestMigration(fs, st, m)].content
              IN  /\ IdColumnAt(text) # {}
                  /\ CreatedAtAt(text) # {}
                  /\ SelectSeq(ObjectLiteral(WrittenEntries(text)),
                               LAMBDA e : \E k \in 1..Len(columns) :
                                            columns[k].key = e.key)
                       = columns

(***************************************************************************)
(* SpecCache: the Template Renderer with its cache.  plan is               *)
(* templateCache, a Map from a source text to its compiled template; hist  *)
(* holds the calls made so far.  A render call records its result and      *)
(* whether it compiled the source.                                         *)
(***************************************************************************)
MaxCalls == 3

\* _lodash.template(content): the source is turned into a function; a
\* block that is opened and not closed, or closed and not opened, is a
\* SyntaxError.  depth counts the blocks open so far.
RECURSIVE blocksClosed(_, _)
blocksClosed(src, depth) ==
  IF src = <<>> THEN depth = 0
  ELSE CASE Head(src) \in DOMAIN Guards \cup {ForEachStart} ->
              blocksClosed(Tail(src), depth + 1)
         [] Head(src) \in {EndBlock, ForEachEnd} ->
              depth > 0 /\ blocksClosed(Tail(src), depth - 1)
         [] Head(src) = ElseBlock ->
              depth > 0 /\ blocksClosed(Tail(src), depth)
         [] OTHER -> blocksClosed(Tail(src), depth)

\* [ok, template]: the compiled template keeps the source it was made from
lodashTemplate(content) ==
  [ok |-> blocksClosed(content, 0), template |-> content]

\* template(data)
applyTemplate(template, data) == renderTokens(template, data, 0)

\* the renderer without the cache: the source is compiled on every call
uncachedRenderTemplate(content, data) ==
  LET compiled == lodashTemplate(content)
  IN  IF ~compiled.ok THEN failed ELSE applyTemplate(compiled.template, data)

\* a Map that finds an entry under any key of the same length
templateCache_get_byLength(cache, content) ==
  IF \E c \in DOMAIN cache : Len(c) = Len(content)
  THEN cache[CHOOSE c \in DOMAIN cache : Len(c) = Len(content)]
  ELSE <<"undefined">>

\* templateCache.get(content): the entry, or undefined
templateCache_get(cache, content) ==
  IF content \in DOMAIN cache THEN cache[content] ELSE <<"undefined">>

\* a Map that holds one entry only
templateCache_set_single(cache, content, template) ==
  [c \in {content} |-> template]

\* templateCache.set(content, template)
templateCache_set(cache, content, template) ==
  [c \in DOMAIN cache \cup {content} |->
     IF c = content THEN template ELSE cache[c]]

\* templateCache.size
_getCacheSize(cache) == Cardinality(DOMAIN cache)

\* the sources rendered: plain text, interpolation, conditional blocks, the
\* empty source, a source with a block left open
CacheSources ==
  { RedisTemplate,
    ModelTemplate,
    << "const ", "<%= moduleName %>", "Model" >>,
    <<>>,
    << "<% if (modelImport) { %>", "const db" >> }

CacheData ==
  { EmptyMapping,
    ("moduleName" :> User) }

InitCache ==
  /\ plan = EmptyMapping
  /\ hist = <<>>
  /\ fs = EmptyTree
  /\ fsPre = EmptyTree
  /\ fs0 = EmptyTree
  /\ project = NoProject

\* templateHelper._renderTemplate(content, data)
RenderTemplate(content, data) ==
  LET cached == templateCache_get(plan, content)
      hit == cached # <<"undefined">>
      compiled == IF hit THEN [ok |-> TRUE, template |-> cached]
                  ELSE lodashTemplate(content)
  IN  /\ Len(hist) < MaxCalls
      /\ plan' = IF ~hit /\ compiled.ok
                 THEN templateCache_set(plan, content, compiled.template)
                 ELSE plan
      /\ hist' = Append(hist,
                        [op |-> "render", content |-> content, data |-> data,
                         compiled |-> ~hit /\ compiled.ok,
                         result |-> IF ~compiled.ok THEN failed
                                    ELSE applyTemplate(compiled.template, data)])
      /\ UNCHANGED <<fs, fsPre, fs0, project>>

\* templateHelper._clearTemplateCache()
ClearTemplateCache ==
  /\ Len(hist) < MaxCalls
  /\ plan' = EmptyMapping
  /\ hist' = Append(hist, [op |-> "clear"])
  /\ UNCHANGED <<fs, fsPre, fs0, project>>

NextCache ==
  \/ \E content \in CacheSources, data \in CacheData :
       RenderTemplate(content, data)
  \/ ClearTemplateCache

SpecCache == InitCache /\ [][NextCache]_vars

(***************************************************************************)
(* Claims about the template cache (SpecCache).                            *)
(***************************************************************************)
CacheCalled == hist # <<>> /\ Last.op \in {"render", "clear"}
\* the calls made after the last clear
SinceClear ==
  {i \in 1..Len(hist) :
     /\ hist[i].op = "render"
     /\ \A j \in i..Len(hist) : hist[j].op # "clear"}
\* the calls that compiled the source
Compilations(content) ==
  {i \in SinceClear : hist[i].content = content /\ hist[i].compiled}

\* C25: after any sequence of render and clear calls the cache holds
\* exactly the distinct sources compiled successfully since the last clear:
\* a source is compiled at most once between two clears, a later render of
\* the same source compiles nothing, every source compiled since the last
\* clear is still in the cache (none is evicted), and a clear leaves the
\* cache empty.
C25_CacheContents ==
  CacheCalled
    => /\ DOMAIN plan = {hist[i].content : i \in {j \in SinceClear :
                                                   blocksClosed(hist[j].content, 0)}}
       /\ \A c \in CacheSources : Cardinality(Compilations(c)) <= 1
       /\ \A i \in SinceClear :
            hist[i].compiled
              <=> /\ blocksClosed(hist[i].content, 0)
                  /\ \A j \in SinceClear : j < i => hist[j].content # hist[i].content
       /\ Last.op = "clear" => _getCacheSize(plan) = 0

\* C25 witness: two sources are cached and the first was rendered again
\* without being compiled
C25_Witness ==
  /\ CacheCalled
  /\ _getCacheSize(plan) = 2
  /\ Last.op = "render" /\ ~Last.compiled
  /\ Last.content = hist[1].content
  /\ hist[1].compiled

\* C26: whatever calls came before, a render call returns, or fails with,
\* what the renderer without the cache returns for the source and the data.
C26_SameAsUncached ==
  \A i \in 1..Len(hist) :
    (CacheCalled /\ hist[i].op = "render")
      => hist[i].result = uncachedRenderTemplate(hist[i].content, hist[i].data)

\* C26 witness: a source rendered from the cache with other data than the
\* call that compiled it, after another source of the same length was cached
C26_Witness ==
  /\ CacheCalled
  /\ Len(hist) = 3
  /\ hist[1].op = "render" /\ hist[1].compiled
  /\ hist[2].op = "render" /\ hist[2].compiled
  /\ Len(hist[2].content) = Len(hist[1].content)
  /\ Last.op = "render" /\ ~Last.compiled
  /\ Last.content = hist[2].content /\ Last.data # hist[2].data
  /\ Last.result.ok

(***************************************************************************)
(* SpecGit: gen:git, gitHelper._setupGitRepository.  plan is the           *)
(* invocation: the arguments of the command line and the facts of the      *)
(* machine (the project is a repository already, the state of the GitHub   *)
(* CLI).  project is the position of the setup: the command it runs next   *)
(* (at) and the values it keeps.  hist holds the commands run so far.      *)
(* Every command resolves with success or failure and an output text.      *)
(***************************************************************************)
NoRemote == <<>>
\* a URL: its scheme, host, separator, path and suffix
GitHubUrl == <<"https://", "github.com", "/", "user/project", ".git">>
OtherUrl == <<"http://", "example.com", "/", "project", "">>
Remotes == {NoRemote, GitHubUrl, OtherUrl}

\* gitUrlPattern.test(url) || sshPattern.test(url)
\*   || url.startsWith('https://') || url.startsWith('git@')
_validateGitUrl(url) ==
  \/ /\ url[1] \in {"https://", "http://", "git@"}
     /\ url[2] \in {"github.com", "gitlab.com", "bitbucket.org", "dev.azure.com"}
     /\ url[3] = "/"
     /\ url[5] = ".git"
  \/ url[1] = "git@" /\ url[3] = ":" /\ url[5] = ".git"
  \/ url[1] = "https://"
  \/ url[1] = "git@"

\* the command line: --remote <url>, --branch <name> ("" when not given),
\* --no-push
GitArguments == [remote : Remotes, branch : {"", "dev"}, noPush : BOOLEAN]

\* the options the action receives: --branch has the default "main", and
\* --no-push is the negation of the option push, which is true by default
gitOptions(arguments) ==
  [remote |-> arguments.remote,
   branch |-> IF arguments.branch = "" THEN "main" ELSE arguments.branch,
   push |-> ~arguments.noPush]

\* options.noPush: undefined when the options have no such key
options_noPush(options) ==
  IF "noPush" \in DOMAIN options THEN options["noPush"] ELSE FALSE

GhStates == {"missing", "unauthenticated", "create fails", "available"}

\* { success, stdout or stderr } of a command
CommandResults ==
  [success : {TRUE}, text : {"", "main", "master"}]
    \cup [success : {FALSE}, text : {"", "already exists", "nothing to commit"}]

\* the command run at a position, with its argument
commandAt(at, options, run) ==
  CASE at = "version" -> <<"git --version">>
    [] at = "config name" -> <<"git config user.name">>
    [] at = "config email" -> <<"git config user.email">>
    [] at = "init" -> <<"git init">>
    [] at = "current branch" -> <<"git branch --show-current">>
    [] at = "create main" -> <<"git checkout -b main">>
    [] at = "add" -> <<"git add .">>
    [] at = "commit" -> <<"git commit -m">>
    [] at = "gh version" -> <<"gh --version">>
    [] at = "gh auth" -> <<"gh auth status">>
    [] at = "gh create" -> <<"gh repo create">>
    [] at = "gh user" -> <<"gh api user --jq .login">>
    [] at = "git user" -> <<"git config user.name">>
    [] at = "remote add" -> <<"git remote add origin">> \o run.remoteUrl
    [] at = "remote verify" -> <<"git remote -v">>
    [] at = "fetch" -> <<"git fetch origin">>
    [] at = "symbolic-ref" -> <<"git symbolic-ref refs/remotes/origin/HEAD">>
    [] at = "remote branches" -> <<"git branch -r">>
    [] at = "create branch" -> <<"git checkout -b", options.branch>>
    [] at = "branch check" -> <<"git branch --show-current">>
    [] at = "log" -> <<"git log --oneline -1">>
    [] at = "branch status" -> <<"git branch -a">>
    [] at = "switch" -> <<"git checkout", options.branch>>
    [] at = "switch create" -> <<"git checkout -b", options.branch>>
    [] at = "push" -> <<"git push -u origin", options.branch>>

Ended == {"completed", "aborted", "returned", "exit"}

\* a setup that goes on to the remote without asking the GitHub CLI
afterCommit_addsOrigin(options, run) ==
  [run EXCEPT !.at = "remote add", !.remoteUrl = GitHubUrl]

\* after the commit: the remote given, or the GitHub CLI
afterCommit(options, run) ==
  IF options.remote # NoRemote
  THEN [run EXCEPT !.at = "remote add", !.remoteUrl = options.remote]
  ELSE [run EXCEPT !.at = "gh version"]

\* after _getRemoteDefaultBranch returned defaultBranch; options.branch is
\* never empty, so it is the target branch
afterDefaultBranch(options, run, defaultBranch) ==
  [run EXCEPT !.at = IF options.branch # defaultBranch THEN "create branch"
                     ELSE IF ~options_noPush(options) THEN "branch check"
                     ELSE "completed"]

\* the position after the command at run.at resolved with r
afterCommand(plan_, options, run, r) ==
  LET at == run.at
      to(next) == [run EXCEPT !.at = next]
      output == r.success /\ r.text # ""
      created == [run EXCEPT !.at = "remote add", !.remoteUrl = GitHubUrl]
  IN  CASE at = "version" ->
             IF ~r.success \/ plan_.isRepository THEN to("aborted")
             ELSE to("config name")
        [] at = "config name" -> to("config email")
        [] at = "config email" ->
             IF options.remote # NoRemote /\ ~_validateGitUrl(options.remote)
             THEN to("aborted") ELSE to("init")
        [] at = "init" ->
             IF r.success \/ r.text = "already exists" THEN to("current branch")
             ELSE to("exit")
        [] at = "current branch" -> IF output THEN to("add") ELSE to("create main")
        [] at = "create main" -> to("add")
        [] at = "add" -> IF r.success THEN to("commit") ELSE to("exit")
        [] at = "commit" ->
             IF r.success \/ r.text = "nothing to commit"
             THEN afterCommit(options, run) ELSE to("exit")
        [] at = "gh version" -> IF r.success THEN to("gh auth") ELSE to("completed")
        [] at = "gh auth" -> IF r.success THEN to("gh create") ELSE to("completed")
        [] at = "gh create" -> IF r.success THEN to("gh user") ELSE to("completed")
        [] at = "gh user" -> IF output THEN created ELSE to("git user")
        [] at = "git user" -> IF output THEN created ELSE to("completed")
        [] at = "remote add" ->
             IF r.success \/ r.text = "already exists" THEN to("remote verify")
             ELSE to("exit")
        [] at = "remote verify" -> to("fetch")
        [] at = "fetch" ->
             IF r.success THEN to("symbolic-ref")
             ELSE afterDefaultBranch(options, run, "main")
        [] at = "symbolic-ref" ->
             IF r.success THEN afterDefaultBranch(options, run, r.text)
             ELSE to("remote branches")
        [] at = "remote branches" ->
             afterDefaultBranch(options, run,
                                IF r.success /\ r.text = "master" THEN "master"
                                ELSE "main")
        [] at = "create branch" ->
             IF ~options_noPush(options) THEN to("branch check")
             ELSE to("completed")
        [] at = "branch check" ->
             IF output THEN [run EXCEPT !.at = "log", !.currentBranch = r.text]
             ELSE to("returned")
        [] at = "log" -> IF output THEN to("branch status") ELSE to("returned")
        [] at = "branch status" ->
             IF run.currentBranch # options.branch THEN to("switch")
             ELSE to("push")
        [] at = "switch" -> IF r.success THEN to("push") ELSE to("switch create")
        [] at = "switch create" -> to("push")
        [] at = "push" -> to("completed")

\* what the GitHub CLI answers on this machine
ghAnswers(at, gh, r) ==
  CASE at = "gh version" -> r.success <=> gh # "missing"
    [] at = "gh auth" -> r.success <=> gh \in {"create fails", "available"}
    [] at = "gh create" -> r.success <=> gh = "available"
    [] OTHER -> TRUE

InitGit ==
  /\ plan \in [arguments : GitArguments, isRepository : BOOLEAN, gh : GhStates]
  /\ project = [at |-> "version", remoteUrl |-> NoRemote, currentBranch |-> ""]
  /\ hist = <<>>
  /\ fs = EmptyTree
  /\ fsPre = EmptyTree
  /\ fs0 = EmptyTree

\* one command of _setupGitRepository is run and resolves with r
RunCommand(r) ==
  LET options == gitOptions(plan.arguments)
  IN  /\ project.at \notin Ended
      /\ ghAnswers(project.at, plan.gh, r)
      /\ hist' = Append(hist, commandAt(project.at, options, project))
      /\ project' = afterCommand(plan, options, project, r)
      /\ UNCHANGED <<fs, fsPre, fs0, plan>>

NextGit == \E r \in CommandResults : RunCommand(r)

SpecGit == InitGit /\ [][NextGit]_vars

(***************************************************************************)
(* Claims about gen:git (SpecGit).                                         *)
(***************************************************************************)
GitCalled == "at" \in DOMAIN project /\ hist # <<>>
Issued(command) == \E i \in 1..Len(hist) : hist[i][1] = command
PlaceOf(command) == Min({i \in 1..Len(hist) : hist[i][1] = command})

\* C27: when gen:git is run with --no-push, the setup never issues a git
\* push command: the repository is initialised and committed and the remote
\* may be configured, but nothing is pushed.
C27_NoPushNeverPushes ==
  (GitCalled /\ plan.arguments.noPush) => ~Issued("git push -u origin")

\* the GitHub CLI is missing, not authenticated, or fails to create the
\* repository
GhUnusable == plan.gh \in {"missing", "unauthenticated", "create fails"}
LocalOnlyCase == GitCalled /\ plan.arguments.remote = NoRemote /\ GhUnusable
LocalOnly ==
  /\ project.at = "completed"
  /\ Issued("git init") /\ Issued("git add .") /\ Issued("git commit -m")
  /\ PlaceOf("git init") < PlaceOf("git add .")
  /\ PlaceOf("git add .") < PlaceOf("git commit -m")

====
